---- MODULE Spec2Model ----
(***************************************************************************)
(* A model of the CHIP-8 interpreter of brycemooore/chip8.                 *)
(*                                                                         *)
(* The virtual machine is the struct Chip8 of chip8/src/chip.rs.  Its      *)
(* methods are operators over a record `self` holding the struct's fields  *)
(* (plus `panic`, the message of the Rust panic that ended the call, or    *)
(* NoPanic); the actions are the public methods the host calls.            *)
(*                                                                         *)
(* The two big arrays are held by their non-default cells: `memory` maps   *)
(* exactly the addresses whose byte is not 0 to that byte (every other     *)
(* address of 0..RAM-1 holds 0), and `display` is the set of the indices   *)
(* of the cells that are set.  Both are one-to-one with the arrays.        *)
(***************************************************************************)
EXTENDS Integers, Sequences, FiniteSets, TLC

(* ------------------------------------------------------------------ *)
(* Program constants (chip.rs lines 4..13).                            *)
(* ------------------------------------------------------------------ *)
NUM_KEYS == 16
NUM_REGISTERS == 16
RAM == 4096
STACK_SIZE == 16
DISPLAY_MAX_Y == 32
DISPLAY_MAX_X == 64
FONTSET_SIZE == 80
START_ADDR == 512
SPRITE_WIDTH == 8
FONTSET_ADDR == 80

FONTSET ==
  << 240, 144, 144, 144, 240,
      32,  96,  32,  32, 112,
     240,  16, 240, 128, 240,
     240,  16, 240,  16, 240,
     144, 144, 240,  16,  16,
     240, 128, 240,  16, 240,
     240, 128, 240, 144, 240,
     240,  16,  32,  64,  64,
     240, 144, 240, 144, 240,
     240, 144, 240,  16, 240,
     240, 144, 240, 144, 144,
     224, 144, 224, 144, 224,
     240, 128, 128, 128, 240,
     224, 144, 144, 144, 224,
     240, 128, 240, 128, 240,
     240, 128, 240, 128, 128 >>

(* Widths of the integer types the code computes in. *)
U8 == 256
U16 == 65536

(* ------------------------------------------------------------------ *)
(* State.                                                              *)
(* ------------------------------------------------------------------ *)
VARIABLES
  registers,              \* [u8; 16]
  position_in_memory,     \* usize, the program counter
  memory,                 \* [u8; 4096], by its nonzero bytes
  stack,                  \* [u16; 16]
  stack_pointer,          \* usize
  i_register,             \* u16
  delay_timer_register,   \* u8
  sound_timer_register,   \* u8
  keys,                   \* [bool; 16]
  display,                \* [bool; 64 * 32], by its set cells
  panicked,               \* the panic that ended the process, or NoPanic
  overflow_checks,        \* the build: TRUE panics on integer overflow, FALSE wraps
  last,                   \* the last host call: what ran, and on what
  shadow,                 \* history: the calls not yet returned from
  timer_run,              \* history: the consecutive tick_timers() calls so far
  mutex,                  \* threaded test: the owner of Mutex<Chip8>
  threads                 \* threaded test: where the worker and the main thread are

chip_vars ==
  << registers, position_in_memory, memory, stack, stack_pointer, i_register,
     delay_timer_register, sound_timer_register, keys, display >>

history_vars == << last, shadow, timer_run >>

thread_vars == << mutex, threads >>

vars == << chip_vars, panicked, overflow_checks, history_vars, thread_vars >>

NoPanic == "none"

(* ------------------------------------------------------------------ *)
(* Bit arithmetic on unsigned integers.                                *)
(* ------------------------------------------------------------------ *)
RECURSIVE BitAnd(_, _)
BitAnd(a, b) ==
  IF a = 0 \/ b = 0 THEN 0
  ELSE (a % 2) * (b % 2) + 2 * BitAnd(a \div 2, b \div 2)

RECURSIVE BitOr(_, _)
BitOr(a, b) ==
  IF a = 0 THEN b
  ELSE IF b = 0 THEN a
  ELSE (IF a % 2 = 1 \/ b % 2 = 1 THEN 1 ELSE 0) + 2 * BitOr(a \div 2, b \div 2)

RECURSIVE BitXor(_, _)
BitXor(a, b) ==
  IF a = 0 THEN b
  ELSE IF b = 0 THEN a
  ELSE ((a + b) % 2) + 2 * BitXor(a \div 2, b \div 2)

(* ------------------------------------------------------------------ *)
(* The arrays memory and display.                                      *)
(* ------------------------------------------------------------------ *)

(* memory[a] *)
ReadByte(mem, a) == IF a \in DOMAIN mem THEN mem[a] ELSE 0

(* memory with memory[a] = v *)
WriteByte(mem, a, v) ==
  [b \in (IF v = 0 THEN DOMAIN mem \ {a} ELSE DOMAIN mem \cup {a}) |->
     IF b = a THEN v ELSE mem[b]]

(* display[idx] *)
ReadCell(disp, idx) == idx \in disp

(* display with display[idx] = true: the cell is set, not toggled *)
SetCell(disp, idx) == disp \cup {idx}

(* display with display[idx] ^= true *)
FlipCell(disp, idx) == IF idx \in disp THEN disp \ {idx} ELSE disp \cup {idx}

(* ------------------------------------------------------------------ *)
(* The struct as a record, and a panic.                                *)
(* ------------------------------------------------------------------ *)
Self ==
  [ registers            |-> registers,
    position_in_memory   |-> position_in_memory,
    memory               |-> memory,
    stack                |-> stack,
    stack_pointer        |-> stack_pointer,
    i_register           |-> i_register,
    delay_timer_register |-> delay_timer_register,
    sound_timer_register |-> sound_timer_register,
    keys                 |-> keys,
    display              |-> display,
    panic                |-> panicked ]

Commit(self) ==
  /\ registers' = self.registers
  /\ position_in_memory' = self.position_in_memory
  /\ memory' = self.memory
  /\ stack' = self.stack
  /\ stack_pointer' = self.stack_pointer
  /\ i_register' = self.i_register
  /\ delay_timer_register' = self.delay_timer_register
  /\ sound_timer_register' = self.sound_timer_register
  /\ keys' = self.keys
  /\ display' = self.display
  /\ panicked' = self.panic

Panic(self, message) == [self EXCEPT !.panic = message]

StackOverflow == "Stack overflow"
StackUnderflow == "Stack underflow"
SyscallNotSupported == "Syscall not supported"
NotYetImplemented == "not yet implemented"
InvalidKey == "Invalid Key Provided"
IndexOutOfBounds == "index out of bounds"
AddOverflow == "attempt to add with overflow"

(* Chip8::new that leaves the program counter at 0 and the last glyph byte
   out of the font copy *)
new_without_start_addr ==
  [ registers            |-> [r \in 0..(NUM_REGISTERS - 1) |-> 0],
    position_in_memory   |-> 0,
    memory               |-> [a \in {b \in FONTSET_ADDR..(FONTSET_ADDR + FONTSET_SIZE - 2) :
                                       FONTSET[b - FONTSET_ADDR + 1] # 0} |->
                               FONTSET[a - FONTSET_ADDR + 1]],
    stack                |-> [s \in 0..(STACK_SIZE - 1) |-> 0],
    stack_pointer        |-> 0,
    i_register           |-> 0,
    delay_timer_register |-> 0,
    sound_timer_register |-> 0,
    keys                 |-> [k \in 0..(NUM_KEYS - 1) |-> FALSE],
    display              |-> {},
    panic                |-> NoPanic ]

(* Chip8::new *)
new ==
  [ registers            |-> [r \in 0..(NUM_REGISTERS - 1) |-> 0],
    position_in_memory   |-> START_ADDR,
    memory               |-> [a \in {b \in FONTSET_ADDR..(FONTSET_ADDR + FONTSET_SIZE - 1) :
                                       FONTSET[b - FONTSET_ADDR + 1] # 0} |->
                               FONTSET[a - FONTSET_ADDR + 1]],
    stack                |-> [s \in 0..(STACK_SIZE - 1) |-> 0],
    stack_pointer        |-> 0,
    i_register           |-> 0,
    delay_timer_register |-> 0,
    sound_timer_register |-> 0,
    keys                 |-> [k \in 0..(NUM_KEYS - 1) |-> FALSE],
    display              |-> {},
    panic                |-> NoPanic ]

(* load_rom that copies the bytes that fit before it fails on an image that
   is too long *)
load_rom_copies_what_fits(self, rom) ==
  LET fits == IF START_ADDR + Len(rom) > RAM THEN RAM - START_ADDR ELSE Len(rom)
      region == START_ADDR..(START_ADDR + fits - 1)
      copied == {a \in region : rom[a - START_ADDR + 1] # 0}
      written == [self EXCEPT !.memory =
                    [a \in (DOMAIN self.memory \ region) \cup copied |->
                       IF a \in region THEN rom[a - START_ADDR + 1] ELSE self.memory[a]]]
  IN  IF fits < Len(rom) THEN Panic(written, IndexOutOfBounds) ELSE written

(* Chip8::load_rom: the slice START_ADDR..=START_ADDR + len - 1 must lie in memory. *)
load_rom(self, rom) ==
  IF START_ADDR + Len(rom) - 1 >= RAM
  THEN Panic(self, IndexOutOfBounds)
  ELSE LET region == START_ADDR..(START_ADDR + Len(rom) - 1)
           copied == {a \in region : rom[a - START_ADDR + 1] # 0}
       IN  [self EXCEPT !.memory =
              [a \in (DOMAIN self.memory \ region) \cup copied |->
                 IF a \in region THEN rom[a - START_ADDR + 1] ELSE self.memory[a]]]

(* Chip8::new_with_rom *)
new_with_rom(rom) == load_rom(new, rom)

(* tick_timers that also steps the program counter *)
tick_timers_steps_pc(self) ==
  LET d == IF self.delay_timer_register > 0
           THEN self.delay_timer_register - 1
           ELSE self.delay_timer_register
      s == IF self.sound_timer_register > 0
           THEN self.sound_timer_register - 1
           ELSE self.sound_timer_register
  IN  [self EXCEPT !.delay_timer_register = d, !.sound_timer_register = s,
                   !.position_in_memory = self.position_in_memory + 2]

(* tick_timers that decrements without the test for 0: the u8 wraps to 255 *)
tick_timers_wraps(self) ==
  [self EXCEPT !.delay_timer_register = (self.delay_timer_register - 1) % U8,
               !.sound_timer_register = (self.sound_timer_register - 1) % U8]

(* Chip8::tick_timers *)
tick_timers(self) ==
  LET d == IF self.delay_timer_register > 0
           THEN self.delay_timer_register - 1
           ELSE self.delay_timer_register
      s == IF self.sound_timer_register > 0
           THEN self.sound_timer_register - 1
           ELSE self.sound_timer_register
  IN  [self EXCEPT !.delay_timer_register = d, !.sound_timer_register = s]

(* key_press whose range test admits 16, for which no latch exists *)
key_press_admits_sixteen(self, key) ==
  IF key > NUM_KEYS
  THEN Panic(self, InvalidKey)
  ELSE [self EXCEPT !.keys = [k \in 0..(NUM_KEYS - 1) |-> k = key \/ self.keys[k]]]

(* Chip8::key_press *)
key_press(self, key) ==
  IF key > 15
  THEN Panic(self, InvalidKey)
  ELSE [self EXCEPT !.keys[key] = TRUE]

(* Chip8::key_release *)
key_release(self, key) ==
  IF key > 15
  THEN Panic(self, InvalidKey)
  ELSE [self EXCEPT !.keys[key] = FALSE]

(* ------------------------------------------------------------------ *)
(* The decoder, Opcode::decode.                                        *)
(* ------------------------------------------------------------------ *)
NoRow == [op |-> "NoRow"]

(* The rows for the variants Chip8::execute dispatches on that the table of
   opcode.rs does not hold; their encodings are the ones annotated on the
   handlers of chip.rs (Fx0A, Ex9E, ExA1, Fx29, Fx55, Fx65, 00E0) and, for
   draw, the Dxyn of the instruction set. *)
DecodeMissingRows(opcode) ==
  LET c   == opcode \div 4096
      x   == (opcode \div 256) % 16
      y   == (opcode \div 16) % 16
      d   == opcode % 16
  IN  IF c = 0 /\ x = 0 /\ y = 14 /\ d = 0 THEN [op |-> "ClearScreen"]
      ELSE IF c = 13 THEN [op |-> "Draw", x |-> x, y |-> y, n |-> d]
      ELSE IF c = 14 /\ y = 9 /\ d = 14 THEN [op |-> "SkipIfKeyAtVxPressed", x |-> x]
      ELSE IF c = 14 /\ y = 10 /\ d = 1 THEN [op |-> "SkipIfKeyAtVxNotPressed", x |-> x]
      ELSE IF c = 15 /\ y = 0 /\ d = 10 THEN [op |-> "WaitForKeyPressAndStoreVx", x |-> x]
      ELSE IF c = 15 /\ y = 2 /\ d = 9
        THEN [op |-> "SetICorrespondingFontAddressFromVx", x |-> x]
      ELSE IF c = 15 /\ y = 5 /\ d = 5
        THEN [op |-> "LoadRegistersV0ToVxIntoMemoryAtI", x |-> x]
      ELSE IF c = 15 /\ y = 6 /\ d = 5
        THEN [op |-> "FillRegistersV0ToVxFromMmoryAtI", x |-> x]
      ELSE NoRow

(* The table of opcode.rs, first match wins.  The shift variants carry y as
   well, as Chip8::execute reads it from them. *)
DecodeTable(opcode) ==
  LET c   == opcode \div 4096
      x   == (opcode \div 256) % 16
      y   == (opcode \div 16) % 16
      d   == opcode % 16
      nnn == opcode % 4096
      kk  == opcode % 256
  IN  IF c = 1 THEN [op |-> "Jump", nnn |-> nnn]
      ELSE IF c = 2 THEN [op |-> "Call", nnn |-> nnn]
      ELSE IF c = 3 THEN [op |-> "SkipIfEqualAtX", x |-> x, kk |-> kk]
      ELSE IF c = 4 THEN [op |-> "SkipIfNotEqualAtX", x |-> x, kk |-> kk]
      ELSE IF c = 5 /\ d = 0 THEN [op |-> "SkipIfBothValuesEqual", x |-> x, y |-> y]
      ELSE IF c = 6 THEN [op |-> "LoadValueToRegister", x |-> x, kk |-> kk]
      ELSE IF c = 7 THEN [op |-> "AddToValueInRegister", x |-> x, kk |-> kk]
      ELSE IF c = 8 /\ d = 0 THEN [op |-> "LoadYIntoX", x |-> x, y |-> y]
      ELSE IF c = 8 /\ d = 1 THEN [op |-> "BitwiseOrXY", x |-> x, y |-> y]
      ELSE IF c = 8 /\ d = 2 THEN [op |-> "BitwiseAndXY", x |-> x, y |-> y]
      ELSE IF c = 8 /\ d = 3 THEN [op |-> "BitwiseXorXY", x |-> x, y |-> y]
      ELSE IF c = 8 /\ d = 4 THEN [op |-> "AddXY", x |-> x, y |-> y]
      ELSE IF c = 8 /\ d = 5 THEN [op |-> "SubXfromY", x |-> x, y |-> y]
      ELSE IF c = 8 /\ d = 6 THEN [op |-> "ShiftRight", x |-> x, y |-> y]
      ELSE IF c = 8 /\ d = 7 THEN [op |-> "SubYfromX", x |-> x, y |-> y]
      ELSE IF c = 8 /\ d = 14 THEN [op |-> "ShiftLeft", x |-> x, y |-> y]
      ELSE IF c = 9 /\ d = 0 THEN [op |-> "SkipIfBothValuesNotEqual", x |-> x, y |-> y]
      ELSE IF c = 10 THEN [op |-> "SetIRegister", nnn |-> nnn]
      ELSE IF c = 11 THEN [op |-> "JumpPlusV0", nnn |-> nnn]
      ELSE IF c = 12 THEN [op |-> "RandomNumberToRegisterX", x |-> x, kk |-> kk]
      ELSE IF c = 15 /\ y = 0 /\ d = 7 THEN [op |-> "LoadDelayTimerToVx", x |-> x]
      ELSE IF c = 15 /\ y = 1 /\ d = 5 THEN [op |-> "SetDelayTimer", x |-> x]
      ELSE IF c = 15 /\ y = 1 /\ d = 8 THEN [op |-> "SetSoundTimer", x |-> x]
      ELSE IF c = 15 /\ y = 1 /\ d = 14 THEN [op |-> "AddVxToIRegister", x |-> x]
      ELSE IF c = 15 /\ y = 3 /\ d = 3
        THEN [op |-> "LoadVxAsDecimalIntoMemoryAtIRegister", x |-> x]
      ELSE IF c = 0 /\ x = 0 /\ y = 14 /\ d = 14 THEN [op |-> "Ret"]
      ELSE IF c = 0 THEN [op |-> "Sys", nnn |-> nnn]
      ELSE [op |-> "UnknownOpcode", opcode |-> opcode]

(* decode whose unrecognized variant carries the low 12 bits only *)
decode_unknown_truncated(opcode) ==
  LET o == IF DecodeMissingRows(opcode) # NoRow
           THEN DecodeMissingRows(opcode)
           ELSE DecodeTable(opcode)
  IN  IF o.op = "UnknownOpcode" THEN [o EXCEPT !.opcode = opcode % 4096] ELSE o

(* decode whose system-call row comes before the 00E0 and 00EE rows *)
decode_sys_row_first(opcode) ==
  IF opcode \div 4096 = 0 THEN [op |-> "Sys", nnn |-> opcode % 4096]
  ELSE IF DecodeMissingRows(opcode) # NoRow
    THEN DecodeMissingRows(opcode)
    ELSE DecodeTable(opcode)

(* decode that takes kk from bits 4..11 *)
decode_kk_shifted(opcode) ==
  LET o == IF DecodeMissingRows(opcode) # NoRow
           THEN DecodeMissingRows(opcode)
           ELSE DecodeTable(opcode)
  IN  IF "kk" \in DOMAIN o THEN [o EXCEPT !.kk = (opcode \div 16) % 256] ELSE o

decode(opcode) ==
  IF DecodeMissingRows(opcode) # NoRow
  THEN DecodeMissingRows(opcode)
  ELSE DecodeTable(opcode)

(* ------------------------------------------------------------------ *)
(* The instruction handlers of Chip8, in the order of chip.rs.         *)
(* ------------------------------------------------------------------ *)

(* Chip8::set_vf *)
set_vf(self, set_to_one) ==
  IF set_to_one
  THEN [self EXCEPT !.registers[15] = 1]
  ELSE [self EXCEPT !.registers[15] = 0]

(* call, pushing the address of the call instruction itself *)
call_pushes_fetch_address(self, addr) ==
  LET sp == self.stack_pointer
  IN  IF sp >= STACK_SIZE
      THEN Panic(self, StackOverflow)
      ELSE [self EXCEPT !.stack[sp] = (self.position_in_memory - 2) % U16,
                        !.stack_pointer = self.stack_pointer + 1,
                        !.position_in_memory = addr]

(* call, with the capacity check off by one *)
call_checks_past_capacity(self, addr) ==
  LET sp == self.stack_pointer
  IN  IF sp > STACK_SIZE
      THEN Panic(self, StackOverflow)
      ELSE [self EXCEPT !.stack = [s \in DOMAIN self.stack \cup {sp} |->
                                     IF s = sp THEN self.position_in_memory % U16
                                     ELSE self.stack[s]],
                        !.stack_pointer = self.stack_pointer + 1,
                        !.position_in_memory = addr]

(* call that takes the jump before it finds the stack full *)
call_jumps_before_check(self, addr) ==
  LET sp == self.stack_pointer
  IN  IF sp >= STACK_SIZE
      THEN Panic([self EXCEPT !.position_in_memory = addr], StackOverflow)
      ELSE [self EXCEPT !.stack[sp] = self.position_in_memory % U16,
                        !.stack_pointer = self.stack_pointer + 1,
                        !.position_in_memory = addr]

(* 2nnn - CALL addr *)
call(self, addr) ==
  LET sp == self.stack_pointer
  IN  IF sp >= STACK_SIZE
      THEN Panic(self, StackOverflow)
      ELSE [self EXCEPT !.stack[sp] = self.position_in_memory % U16,
                        !.stack_pointer = self.stack_pointer + 1,
                        !.position_in_memory = addr]

(* ret, with no check for the empty stack: the depth saturates at 0 *)
ret_without_underflow_check(self) ==
  LET sp == IF self.stack_pointer = 0 THEN 0 ELSE self.stack_pointer - 1
      call_addr == self.stack[sp]
  IN  [self EXCEPT !.stack_pointer = sp,
                   !.position_in_memory = call_addr]

(* ret that jumps to the saved address and clears its slot but leaves the
   depth as it was *)
ret_keeps_depth(self) ==
  IF self.stack_pointer = 0
  THEN Panic(self, StackUnderflow)
  ELSE LET sp == self.stack_pointer - 1
           call_addr == self.stack[sp]
       IN  [self EXCEPT !.stack[sp] = 0,
                        !.position_in_memory = call_addr]

(* 00EE - RET *)
ret(self) ==
  IF self.stack_pointer = 0
  THEN Panic(self, StackUnderflow)
  ELSE LET sp == self.stack_pointer - 1
           call_addr == self.stack[sp]
       IN  [self EXCEPT !.stack_pointer = sp,
                        !.position_in_memory = call_addr]

(* 1nnn - JP addr *)
jump(self, addr) == [self EXCEPT !.position_in_memory = addr]

(* 3xkk - SE Vx, byte *)
skip_if_equal_at_x(self, x, kk) ==
  LET vx == self.registers[x]
  IN  IF vx = kk
      THEN [self EXCEPT !.position_in_memory = self.position_in_memory + 2]
      ELSE self

(* 4xkk - SNE Vx, byte *)
skip_if_not_equal_at_x(self, x, kk) ==
  LET vx == self.registers[x]
  IN  IF vx # kk
      THEN [self EXCEPT !.position_in_memory = self.position_in_memory + 2]
      ELSE self

(* 5xy0 - SE Vx, Vy *)
skip_if_both_values_are_equal(self, x, y) ==
  LET vx == self.registers[x]
      vy == self.registers[y]
  IN  IF vx = vy
      THEN [self EXCEPT !.position_in_memory = self.position_in_memory + 2]
      ELSE self

(* 6xkk - LD Vx, byte *)
load_value_to_register(self, x, kk) == [self EXCEPT !.registers[x] = kk]

(* 7xkk - ADD Vx, byte: wrapping_add *)
add_to_value_in_register(self, x, kk) ==
  LET vx == self.registers[x]
  IN  [self EXCEPT !.registers[x] = (vx + kk) % U8]

(* 8xy0 - LD Vx, Vy *)
load_y_into_x(self, x, y) ==
  LET vy == self.registers[y]
  IN  [self EXCEPT !.registers[x] = vy]

(* 8xy1 - OR Vx, Vy *)
bitwise_or_xy(self, x, y) ==
  LET vx == self.registers[x]
      vy == self.registers[y]
  IN  [self EXCEPT !.registers[x] = BitOr(vx, vy)]

(* 8xy2 - AND Vx, Vy *)
bitwise_and_xy(self, x, y) ==
  LET vx == self.registers[x]
      vy == self.registers[y]
  IN  [self EXCEPT !.registers[x] = BitAnd(vx, vy)]

(* 8xy3 - XOR Vx, Vy *)
bitwise_xor_xy(self, x, y) ==
  LET vx == self.registers[x]
      vy == self.registers[y]
  IN  [self EXCEPT !.registers[x] = BitXor(vx, vy)]

(* add that writes the carry first and the sum last *)
add_xy_sum_last(self, x, y) ==
  LET vx == self.registers[x]
      vy == self.registers[y]
      sum == (vx + vy) % U8
      carry == vx + vy >= U8
  IN  [set_vf(self, carry) EXCEPT !.registers[x] = sum]

(* 8xy4 - ADD Vx, Vy: overflowing_add, then the carry into VF *)
add_xy(self, x, y) ==
  LET vx == self.registers[x]
      vy == self.registers[y]
      sum == (vx + vy) % U8
      carry == vx + vy >= U8
  IN  set_vf([self EXCEPT !.registers[x] = sum], carry)

(* subtract that sets VF when there is no borrow, equal operands included *)
sub_y_from_x_flag_on_equal(self, x, y) ==
  LET vx == self.registers[x]
      vy == self.registers[y]
  IN  set_vf([self EXCEPT !.registers[x] = (vx - vy) % U8], vx >= vy)

(* 8xy5 - SUB Vx, Vy: wrapping_sub, then vx > vy into VF *)
sub_y_from_x(self, x, y) ==
  LET vx == self.registers[x]
      vy == self.registers[y]
  IN  set_vf([self EXCEPT !.registers[x] = (vx - vy) % U8], vx > vy)

(* reverse subtract whose flag compares the operands the way the forward
   subtract does *)
sub_x_from_y_forward_flag(self, x, y) ==
  LET vx == self.registers[x]
      vy == self.registers[y]
  IN  set_vf([self EXCEPT !.registers[x] = (vy - vx) % U8], vx > vy)

(* 8xy7 - SUBN Vx, Vy: wrapping_sub, then vy > vx into VF *)
sub_x_from_y(self, x, y) ==
  LET vx == self.registers[x]
      vy == self.registers[y]
  IN  set_vf([self EXCEPT !.registers[x] = (vy - vx) % U8], vy > vx)

(* shift right in place: the source is Vx, y is ignored *)
shift_right_in_place(self, x, y) ==
  LET vx == self.registers[x]
      shifted == [self EXCEPT !.registers[x] = vx \div 2]
  IN  [shifted EXCEPT !.registers[15] = vx % 2]

(* 8xy6 - SHR Vx {, Vy} *)
shift_right(self, x, y) ==
  LET vy == self.registers[y]
      shifted == [self EXCEPT !.registers[x] = vy \div 2]
  IN  [shifted EXCEPT !.registers[15] = vy % 2]

(* shift left that writes the flag first and the shifted value last *)
shift_left_value_last(self, x, y) ==
  LET vy == self.registers[y]
      flagged == [self EXCEPT !.registers[15] = (vy \div 128) % 2]
  IN  [flagged EXCEPT !.registers[x] = (vy * 2) % U8]

(* 8xyE - SHL Vx {, Vy} *)
shift_left(self, x, y) ==
  LET vy == self.registers[y]
      shifted == [self EXCEPT !.registers[x] = (vy * 2) % U8]
  IN  [shifted EXCEPT !.registers[15] = (vy \div 128) % 2]

(* 9xy0 - SNE Vx, Vy *)
skip_if_both_values_are_not_equal(self, x, y) ==
  LET vx == self.registers[x]
      vy == self.registers[y]
  IN  IF vx # vy
      THEN [self EXCEPT !.position_in_memory = self.position_in_memory + 2]
      ELSE self

(* Annn - LD I, addr *)
set_i_register(self, nnn) == [self EXCEPT !.i_register = nnn]

(* jump with offset that masks the sum to 12 bits *)
jump_plus_v0_masked(self, nnn) ==
  LET v0 == self.registers[0]
  IN  jump(self, (nnn + v0) % RAM)

(* Bnnn - JP V0, addr *)
jump_plus_v0(self, nnn) ==
  LET v0 == self.registers[0]
  IN  jump(self, nnn + v0)

(* Cxkk - RND Vx, byte: random_number is what thread_rng() drew *)
random_number_to_x(self, x, kk, random_number) ==
  [self EXCEPT !.registers[x] = BitAnd(random_number, kk)]

(* Fx07 - LD Vx, DT *)
load_delay_timer_to_vx(self, x) ==
  [self EXCEPT !.registers[x] = self.delay_timer_register]

(* Fx15 - LD DT, Vx *)
set_delay_timer(self, x) ==
  LET vx == self.registers[x]
  IN  [self EXCEPT !.delay_timer_register = vx]

(* Fx18 - LD ST, Vx *)
set_sound_timer(self, x) ==
  LET vx == self.registers[x]
  IN  [self EXCEPT !.sound_timer_register = vx]

(* Fx1E - ADD I, Vx: wrapping_add *)
add_vx_to_i_register(self, x) ==
  LET vx == self.registers[x]
  IN  [self EXCEPT !.i_register = (self.i_register + vx) % U16]

(* BCD whose tens digit is not reduced: vx / 10 instead of (vx % 100) / 10 *)
bcd_tens_unreduced(self, x) ==
  LET vx == self.registers[x]
      i == self.i_register
  IN  IF i + 2 >= RAM THEN Panic(self, IndexOutOfBounds)
      ELSE [self EXCEPT !.memory =
              WriteByte(WriteByte(WriteByte(self.memory, i, vx \div 100),
                                  i + 1, vx \div 10),
                        i + 2, vx % 10)]

(* Fx33 - LD B, Vx: three indexed stores, each bounds-checked *)
load_vx_as_decimal_into_memory_at_i(self, x) ==
  LET vx == self.registers[x]
      hundreds == vx \div 100
      tens == (vx % 100) \div 10
      ones == vx % 10
      i == self.i_register
  IN  IF i >= RAM THEN Panic(self, IndexOutOfBounds)
      ELSE IF i + 1 >= RAM
        THEN Panic([self EXCEPT !.memory = WriteByte(self.memory, i, hundreds)],
                   IndexOutOfBounds)
      ELSE IF i + 2 >= RAM
        THEN Panic([self EXCEPT !.memory =
                      WriteByte(WriteByte(self.memory, i, hundreds), i + 1, tens)],
                   IndexOutOfBounds)
      ELSE [self EXCEPT !.memory =
              WriteByte(WriteByte(WriteByte(self.memory, i, hundreds), i + 1, tens),
                        i + 2, ones)]

(* i_register += x as u16 + 1, in the build's overflow mode *)
advance_i_register(self, x) ==
  IF self.i_register + x + 1 >= U16 /\ overflow_checks
  THEN Panic(self, AddOverflow)
  ELSE [self EXCEPT !.i_register = (self.i_register + x + 1) % U16]

(* The loop of Fx55 from register r on, storing at address i. *)
RECURSIVE store_registers_from(_, _, _, _)
store_registers_from(self, x, r, i) ==
  IF r > x THEN self
  ELSE IF i >= RAM THEN Panic(self, IndexOutOfBounds)
  ELSE store_registers_from(
         [self EXCEPT !.memory = WriteByte(self.memory, i, self.registers[r])],
         x, r + 1, i + 1)

(* Fx55 that leaves the index register where it was *)
bulk_store_keeps_i(self, x) == store_registers_from(self, x, 0, self.i_register)

(* Fx55 - LD [I], Vx *)
load_registers_v0_to_vx_into_memory_at_i(self, x) ==
  LET stored == store_registers_from(self, x, 0, self.i_register)
  IN  IF stored.panic # NoPanic THEN stored ELSE advance_i_register(stored, x)

(* The loop of Fx65 from register r on. *)
RECURSIVE fill_registers_from(_, _, _)
fill_registers_from(self, x, r) ==
  IF r > x THEN self
  ELSE IF self.i_register + r >= U16 /\ overflow_checks THEN Panic(self, AddOverflow)
  ELSE LET addr == (self.i_register + r) % U16
       IN  IF addr >= RAM THEN Panic(self, IndexOutOfBounds)
           ELSE fill_registers_from(
                  [self EXCEPT !.registers[r] = ReadByte(self.memory, addr)], x, r + 1)

(* Fx65 that clears the flag register after the load *)
bulk_load_clears_flag(self, x) ==
  LET filled == fill_registers_from(self, x, 0)
  IN  IF filled.panic # NoPanic THEN filled
      ELSE set_vf(advance_i_register(filled, x), FALSE)

(* Fx65 - LD Vx, [I] *)
fill_registers_v0_to_vx_from_memory_at_i(self, x) ==
  LET filled == fill_registers_from(self, x, 0)
  IN  IF filled.panic # NoPanic THEN filled ELSE advance_i_register(filled, x)

(* The scan of Fx0A over keys i..15, in ascending order: every key that is
   down overwrites Vx. *)
RECURSIVE scan_keys_from(_, _, _)
scan_keys_from(self, x, i) ==
  IF i >= NUM_KEYS THEN self
  ELSE IF self.keys[i]
    THEN scan_keys_from([self EXCEPT !.registers[x] = i], x, i + 1)
    ELSE scan_keys_from(self, x, i + 1)

(* Fx0A that does not rewind when no key is down *)
wait_without_rewind(self, x) == scan_keys_from(self, x, 0)

(* Fx0A that stores the first key found down and stops scanning, and rewinds
   one byte too few when none is *)
RECURSIVE first_key_from(_, _, _)
first_key_from(self, x, i) ==
  IF i >= NUM_KEYS THEN [self EXCEPT !.position_in_memory = self.position_in_memory - 1]
  ELSE IF self.keys[i] THEN [self EXCEPT !.registers[x] = i + 1]
  ELSE first_key_from(self, x, i + 1)

wait_stores_key_plus_one(self, x) == first_key_from(self, x, 0)

(* Fx0A that leaves the scan at the first key found down *)
wait_stops_at_first_key(self, x) ==
  LET down == {i \in 0..(NUM_KEYS - 1) : self.keys[i]}
  IN  IF down = {}
      THEN [self EXCEPT !.position_in_memory = self.position_in_memory - 2]
      ELSE [self EXCEPT !.registers[x] = CHOOSE i \in down : \A j \in down : i <= j]

(* Fx0A whose scan ends one key early: key 0xF is seen down, so there is no
   rewind, but is never stored *)
wait_scans_fifteen_keys(self, x) ==
  LET down == {i \in 0..(NUM_KEYS - 2) : self.keys[i]}
      pressed == \E i \in 0..(NUM_KEYS - 1) : self.keys[i]
  IN  IF ~pressed
      THEN [self EXCEPT !.position_in_memory = self.position_in_memory - 2]
      ELSE IF down = {} THEN self
      ELSE [self EXCEPT !.registers[x] = CHOOSE i \in down : \A j \in down : j <= i]

(* Fx0A - LD Vx, K *)
wait_for_keypress_store_vx(self, x) ==
  LET pressed == \E i \in 0..(NUM_KEYS - 1) : self.keys[i]
      scanned == scan_keys_from(self, x, 0)
  IN  IF ~pressed
      THEN [scanned EXCEPT !.position_in_memory = scanned.position_in_memory - 2]
      ELSE scanned

(* Ex9E - SKP Vx: keys[vx] is bounds-checked *)
skip_if_key_at_vx_pressed(self, x) ==
  LET vx == self.registers[x]
  IN  IF vx >= NUM_KEYS THEN Panic(self, IndexOutOfBounds)
      ELSE IF self.keys[vx]
        THEN [self EXCEPT !.position_in_memory = self.position_in_memory + 2]
        ELSE self

(* ExA1 with the test of Ex9E: it skips when the key is down *)
skip_if_key_not_pressed_inverted(self, x) ==
  LET vx == self.registers[x]
  IN  IF vx >= NUM_KEYS THEN Panic(self, IndexOutOfBounds)
      ELSE IF self.keys[vx]
        THEN [self EXCEPT !.position_in_memory = self.position_in_memory + 2]
        ELSE self

(* ExA1 - SKNP Vx *)
skip_if_key_at_vx_not_pressed(self, x) ==
  LET vx == self.registers[x]
  IN  IF vx >= NUM_KEYS THEN Panic(self, IndexOutOfBounds)
      ELSE IF ~self.keys[vx]
        THEN [self EXCEPT !.position_in_memory = self.position_in_memory + 2]
        ELSE self

(* The rows of draw from row y_line on; st is the chip and the `flipped`
   accumulator.  The inner loop over the 8 bits of a row is taken at once:
   its set bits, in ascending column order, flip 8 distinct cells, up to the
   first one whose coordinate sum overflows a u8 in a build that checks. *)
RECURSIVE draw_from(_, _, _, _, _)
draw_from(st, x_coord, y_coord, n, y_line) ==
  IF y_line >= n THEN st
  ELSE IF st.chip.i_register + y_line >= U16 /\ overflow_checks
    THEN [st EXCEPT !.chip = Panic(st.chip, AddOverflow)]
  ELSE LET addr == (st.chip.i_register + y_line) % U16
       IN  IF addr >= RAM THEN [st EXCEPT !.chip = Panic(st.chip, IndexOutOfBounds)]
           ELSE LET pixels == ReadByte(st.chip.memory, addr)
                    bits == {x_line \in 0..(SPRITE_WIDTH - 1) :
                               (pixels \div (2 ^ (7 - x_line))) % 2 = 1}
                    overflowing ==
                      {x_line \in bits :
                         /\ overflow_checks
                         /\ (x_coord + x_line >= U8 \/ y_coord + y_line >= U8)}
                    reached ==
                      {x_line \in bits : \A o \in overflowing : x_line < o}
                    cells ==
                      {(((y_coord + y_line) % U8) % DISPLAY_MAX_Y) * DISPLAY_MAX_X
                         + (((x_coord + x_line) % U8) % DISPLAY_MAX_X) : x_line \in reached}
                    shown == st.chip.display
                    next == [chip |-> [st.chip EXCEPT
                                         !.display =
                                           {idx \in shown \cup cells :
                                              IF idx \in cells
                                              THEN ReadCell(FlipCell(shown, idx), idx)
                                              ELSE ReadCell(shown, idx)}],
                             flipped |-> st.flipped
                                           \/ \E idx \in cells : ReadCell(shown, idx)]
                IN  IF overflowing # {}
                    THEN [next EXCEPT !.chip = Panic(next.chip, AddOverflow)]
                    ELSE draw_from(next, x_coord, y_coord, n, y_line + 1)

(* draw that sets the flag on a collision and never clears it *)
draw_flag_sticky(self, x, y, n) ==
  LET x_coord == self.registers[x]
      y_coord == self.registers[y]
      drawn == draw_from([chip |-> self, flipped |-> FALSE], x_coord, y_coord, n, 0)
  IN  IF drawn.chip.panic # NoPanic THEN drawn.chip
      ELSE IF drawn.flipped
        THEN [drawn.chip EXCEPT !.registers[15] = 1]
        ELSE drawn.chip

(* Dxyn - DRW Vx, Vy, nibble *)
draw(self, x, y, n) ==
  LET x_coord == self.registers[x]
      y_coord == self.registers[y]
      drawn == draw_from([chip |-> self, flipped |-> FALSE], x_coord, y_coord, n, 0)
  IN  IF drawn.chip.panic # NoPanic THEN drawn.chip
      ELSE IF drawn.flipped
        THEN [drawn.chip EXCEPT !.registers[15] = 1]
        ELSE [drawn.chip EXCEPT !.registers[15] = 0]

(* clear_screen that also resets the flag register *)
clear_screen_resets_flag(self) ==
  [self EXCEPT !.display = {}, !.registers[15] = 0]

(* 00E0 - CLS *)
clear_screen(self) ==
  [self EXCEPT !.display = {}]

(* Fx29 - LD F, Vx *)
set_font_address_for_value_in_vx(self, x) ==
  LET vx == self.registers[x]
  IN  [self EXCEPT !.i_register = FONTSET_ADDR + vx * 5]

(* ------------------------------------------------------------------ *)
(* fetch, execute, tick.                                               *)
(* ------------------------------------------------------------------ *)

(* fetch that combines the two bytes low byte first *)
fetch_little_endian(self) ==
  LET p == self.position_in_memory
  IN  IF p >= RAM \/ p + 1 >= RAM
      THEN [chip |-> Panic(self, IndexOutOfBounds), opcode |-> 0]
      ELSE [chip |-> [self EXCEPT !.position_in_memory = p + 2],
            opcode |-> ReadByte(self.memory, p + 1) * 256 + ReadByte(self.memory, p)]

(* Chip8::fetch: both indexed reads are bounds-checked, then PC += 2. *)
fetch(self) ==
  LET p == self.position_in_memory
  IN  IF p >= RAM \/ p + 1 >= RAM
      THEN [chip |-> Panic(self, IndexOutOfBounds), opcode |-> 0]
      ELSE [chip |-> [self EXCEPT !.position_in_memory = p + 2],
            opcode |-> ReadByte(self.memory, p) * 256 + ReadByte(self.memory, p + 1)]

(* Chip8::execute: the match on the decoded variant. *)
execute(self, opcode, random_number) ==
  LET o == decode(opcode)
  IN  CASE o.op = "Sys" -> Panic(self, SyscallNotSupported)
        [] o.op = "Jump" -> jump(self, o.nnn)
        [] o.op = "JumpPlusV0" -> jump_plus_v0(self, o.nnn)
        [] o.op = "Call" -> call(self, o.nnn)
        [] o.op = "SkipIfEqualAtX" -> skip_if_equal_at_x(self, o.x, o.kk)
        [] o.op = "SkipIfNotEqualAtX" -> skip_if_not_equal_at_x(self, o.x, o.kk)
        [] o.op = "LoadValueToRegister" -> load_value_to_register(self, o.x, o.kk)
        [] o.op = "AddToValueInRegister" -> add_to_value_in_register(self, o.x, o.kk)
        [] o.op = "SkipIfBothValuesEqual" -> skip_if_both_values_are_equal(self, o.x, o.y)
        [] o.op = "SkipIfBothValuesNotEqual" ->
             skip_if_both_values_are_not_equal(self, o.x, o.y)
        [] o.op = "LoadYIntoX" -> load_y_into_x(self, o.x, o.y)
        [] o.op = "BitwiseOrXY" -> bitwise_or_xy(self, o.x, o.y)
        [] o.op = "BitwiseAndXY" -> bitwise_and_xy(self, o.x, o.y)
        [] o.op = "BitwiseXorXY" -> bitwise_xor_xy(self, o.x, o.y)
        [] o.op = "AddXY" -> add_xy(self, o.x, o.y)
        [] o.op = "SubYfromX" -> sub_y_from_x(self, o.x, o.y)
        [] o.op = "SubXfromY" -> sub_x_from_y(self, o.x, o.y)
        [] o.op = "Ret" -> ret(self)
        [] o.op = "ShiftRight" -> shift_right(self, o.x, o.y)
        [] o.op = "ShiftLeft" -> shift_left(self, o.x, o.y)
        [] o.op = "SetIRegister" -> set_i_register(self, o.nnn)
        [] o.op = "RandomNumberToRegisterX" ->
             random_number_to_x(self, o.x, o.kk, random_number)
        [] o.op = "LoadDelayTimerToVx" -> load_delay_timer_to_vx(self, o.x)
        [] o.op = "SetDelayTimer" -> set_delay_timer(self, o.x)
        [] o.op = "SetSoundTimer" -> set_sound_timer(self, o.x)
        [] o.op = "AddVxToIRegister" -> add_vx_to_i_register(self, o.x)
        [] o.op = "LoadVxAsDecimalIntoMemoryAtIRegister" ->
             load_vx_as_decimal_into_memory_at_i(self, o.x)
        [] o.op = "LoadRegistersV0ToVxIntoMemoryAtI" ->
             load_registers_v0_to_vx_into_memory_at_i(self, o.x)
        [] o.op = "FillRegistersV0ToVxFromMmoryAtI" ->
             fill_registers_v0_to_vx_from_memory_at_i(self, o.x)
        [] o.op = "WaitForKeyPressAndStoreVx" -> wait_for_keypress_store_vx(self, o.x)
        [] o.op = "SkipIfKeyAtVxPressed" -> skip_if_key_at_vx_pressed(self, o.x)
        [] o.op = "SkipIfKeyAtVxNotPressed" -> skip_if_key_at_vx_not_pressed(self, o.x)
        [] o.op = "Draw" -> draw(self, o.x, o.y, o.n)
        [] o.op = "ClearScreen" -> clear_screen(self)
        [] o.op = "SetICorrespondingFontAddressFromVx" ->
             set_font_address_for_value_in_vx(self, o.x)
        [] o.op = "UnknownOpcode" -> Panic(self, NotYetImplemented)

(* tick that also counts the timers down after the instruction *)
tick_counts_timers(self, random_number) ==
  LET fetched == fetch(self)
      result == IF fetched.chip.panic # NoPanic
                THEN fetched.chip
                ELSE execute(fetched.chip, fetched.opcode, random_number)
  IN  IF result.panic # NoPanic THEN result ELSE tick_timers(result)

(* Chip8::tick *)
tick(self, random_number) ==
  LET fetched == fetch(self)
  IN  IF fetched.chip.panic # NoPanic
      THEN fetched.chip
      ELSE execute(fetched.chip, fetched.opcode, random_number)

(* ------------------------------------------------------------------ *)
(* Bounds of the model and the inputs the host and the tests supply.   *)
(* ------------------------------------------------------------------ *)

(* The host presses and releases keys 0..MaxKeysUsed-1, key 15, and the
   invalid key 16. *)
MaxKeysUsed == 1

(* The values a test fixture puts in a register or a timer lie within
   ByteSpan of 0, of 128 and of 255. *)
ByteSpan == 1

(* A run of tick_timers() calls is followed for at most MaxTimerRun calls. *)
MaxTimerRun == 5

KeyInputs == (0..(MaxKeysUsed - 1)) \cup {NUM_KEYS - 1, NUM_KEYS}

ByteSamples ==
  {v \in 0..(U8 - 1) :
     \/ v <= ByteSpan
     \/ v >= U8 - 1 - ByteSpan
     \/ (v >= 128 - ByteSpan /\ v <= 128 + ByteSpan)}

(* A program image: the big-endian bytes of a sequence of instruction words. *)
Image(words) ==
  [i \in 1..(2 * Len(words)) |->
     IF i % 2 = 1 THEN words[(i + 1) \div 2] \div 256 ELSE words[i \div 2] % 256]

(* 0x200: RND V0,1   0x202: SE V0,0   0x204: CALL 0x200   0x206: RET
   -- recursion to a depth the random draws choose, then the returns. *)
RomRecursion == Image(<< 49153, 12288, 8704, 238 >>)

(* 0x200: RET -- a return with no call. *)
RomBareRet == Image(<< 238 >>)

(* Call sites at 0x204, 0x206 and 0x214, chosen by random draws:
     0x200 RND V0,1   0x202 SNE V0,0   0x204 CALL 0x210   0x206 CALL 0x220
     0x208 SE V0,1    0x20A JP 0x200   0x20C RET          0x20E JP 0x200
     0x210 RND V1,1   0x212 SE V1,0    0x214 CALL 0x220   0x216 RET
     0x218..0x21E JP 0x218
     0x220 RET                                                            *)
RomNestedCalls ==
  Image(<< 49153, 16384, 8720, 8736, 12289, 4608, 238, 4608,
           49409, 12544, 8736, 238, 4632, 4632, 4632, 4632,
           238 >>)

(* 0x200: CALL 0x204   0x202: JP 0x200   0x204: LD V3,K   0x206: RET *)
RomKeyWait == Image(<< 8708, 4608, 62218, 238 >>)

(* 0x200: LD V2,3   0x202: LD DT,V2   0x204: LD V2,1   0x206: LD ST,V2
   0x208: LD V5,DT  0x20A: LD V1,K    0x20C: JP 0x200 *)
RomTimers == Image(<< 25091, 61973, 25089, 61976, 62727, 61706, 4608 >>)

Roms == {RomRecursion, RomBareRet, RomNestedCalls, RomKeyWait, RomTimers}

(* ------------------------------------------------------------------ *)
(* History: what the last host call was.                               *)
(* ------------------------------------------------------------------ *)
NoInstr == [op |-> "none"]

(* The instruction the next tick() executes, if its fetch succeeds. *)
NextInstr(self) ==
  IF fetch(self).chip.panic # NoPanic
  THEN [op |-> "FetchFailed"]
  ELSE decode(fetch(self).opcode)

(* What a draw instruction starts from: the display and the coordinates it
   reads; nothing for any other instruction. *)
DrawStart(self) ==
  LET instr == NextInstr(self)
  IN  IF instr.op = "Draw"
      THEN [display |-> self.display,
            x_coord |-> self.registers[instr.x],
            y_coord |-> self.registers[instr.y]]
      ELSE NoInstr

(* The record of a tick(): the address fetched from, the instruction decoded
   and, for a draw, what it started from. *)
TickRecord(self) ==
  [op |-> "tick", arg |-> self.position_in_memory, instr |-> NextInstr(self),
   from |-> DrawStart(self)]

(* The draws thread_rng() can make in the next tick(), told apart only by the
   bits the instruction's mask keeps (Cxkk stores random_number & kk). *)
RandomDraws(self) ==
  LET instr == NextInstr(self)
  IN  IF instr.op = "RandomNumberToRegisterX"
      THEN {BitAnd(r, instr.kk) : r \in 0..(U8 - 1)}
      ELSE {0}

(* The calls not yet returned from, after a tick() that took self to result. *)
ShadowAfter(self, result) ==
  LET instr == NextInstr(self)
  IN  IF result.panic # NoPanic THEN shadow
      ELSE IF instr.op = "Call"
        THEN Append(shadow, [ret |-> self.position_in_memory + 2,
                             depth |-> self.stack_pointer])
      ELSE IF instr.op = "Ret" /\ Len(shadow) > 0
        THEN SubSeq(shadow, 1, Len(shadow) - 1)
      ELSE shadow

(* The runs of tick_timers() calls: a timer-set instruction starts a new run
   of its timer. *)
NewRun(t) == [n |-> 0, from |-> t]

TimerRunAfter(self, result) ==
  LET instr == NextInstr(self)
  IN  IF result.panic # NoPanic THEN timer_run
      ELSE IF instr.op = "SetDelayTimer"
        THEN [timer_run EXCEPT !.delay = NewRun(result.delay_timer_register)]
      ELSE IF instr.op = "SetSoundTimer"
        THEN [timer_run EXCEPT !.sound = NewRun(result.sound_timer_register)]
      ELSE timer_run

(* ------------------------------------------------------------------ *)
(* The host's calls.                                                   *)
(* ------------------------------------------------------------------ *)

(* The state Chip8::new() or a test fixture leaves, before any call. *)
Start(self, op) ==
  /\ registers = self.registers
  /\ position_in_memory = self.position_in_memory
  /\ memory = self.memory
  /\ stack = self.stack
  /\ stack_pointer = self.stack_pointer
  /\ i_register = self.i_register
  /\ delay_timer_register = self.delay_timer_register
  /\ sound_timer_register = self.sound_timer_register
  /\ keys = self.keys
  /\ display = self.display
  /\ panicked = self.panic
  /\ overflow_checks \in BOOLEAN
  /\ last = [op |-> op, arg |-> 0, instr |-> NoInstr]
  /\ shadow = << >>
  /\ timer_run = [delay |-> NewRun(self.delay_timer_register),
                  sound |-> NewRun(self.sound_timer_register)]

(* No threads: one owner calls the machine. *)
SingleOwner ==
  /\ mutex = "free"
  /\ threads = [worker |-> "idle", main |-> "idle", key |-> 0]

Init == Start(new, "new") /\ SingleOwner

(* main.rs: chip.load_rom(..) right after Chip8::new(). *)
LoadRom ==
  /\ panicked = NoPanic
  /\ last.op = "new"
  /\ \E rom \in Roms :
       /\ Commit(load_rom(Self, rom))
       /\ last' = [op |-> "load_rom", arg |-> Len(rom), instr |-> NoInstr]
  /\ UNCHANGED << overflow_checks, shadow, timer_run, thread_vars >>

Tick ==
  /\ panicked = NoPanic
  /\ \E random_number \in RandomDraws(Self) :
       \E result \in {tick(Self, random_number)} :
         /\ Commit(result)
         /\ last' = TickRecord(Self)
         /\ shadow' = ShadowAfter(Self, result)
         /\ timer_run' = TimerRunAfter(Self, result)
  /\ UNCHANGED << overflow_checks, thread_vars >>

TickTimers ==
  /\ panicked = NoPanic
  /\ Commit(tick_timers(Self))
  /\ last' = [op |-> "tick_timers", arg |-> 0, instr |-> NoInstr]
  /\ UNCHANGED << overflow_checks, shadow, timer_run, thread_vars >>

KeyPress ==
  /\ panicked = NoPanic
  /\ \E key \in KeyInputs :
       /\ Commit(key_press(Self, key))
       /\ last' = [op |-> "key_press", arg |-> key, instr |-> NoInstr]
  /\ UNCHANGED << overflow_checks, shadow, timer_run, thread_vars >>

KeyRelease ==
  /\ panicked = NoPanic
  /\ \E key \in KeyInputs :
       /\ Commit(key_release(Self, key))
       /\ last' = [op |-> "key_release", arg |-> key, instr |-> NoInstr]
  /\ UNCHANGED << overflow_checks, shadow, timer_run, thread_vars >>

Next == LoadRom \/ Tick \/ TickTimers \/ KeyPress \/ KeyRelease

Spec == Init /\ [][Next]_vars

(* The key-wait program, loaded by Chip8::new_with_rom, under a host whose
   game loop (main.rs) calls tick() in every frame. *)
InitKeyWait == Start(new_with_rom(RomKeyWait), "new_with_rom") /\ SingleOwner

NextHost == Tick \/ TickTimers \/ KeyPress \/ KeyRelease

SpecKeyWaitFair == InitKeyWait /\ [][NextHost]_vars /\ WF_vars(Tick)

(* ------------------------------------------------------------------ *)
(* What a step was.                                                    *)
(* ------------------------------------------------------------------ *)

(* The step is a tick() that fetched and decoded an instruction of kind op. *)
Ticked(op) == vars' # vars /\ last'.op = "tick" /\ last'.instr.op = op

NoKeyDown == \A k \in 0..(NUM_KEYS - 1) : ~keys[k]

OnlyKeyDown(k) == \A j \in 0..(NUM_KEYS - 1) : keys[j] <=> (j = k)

(* The program counter is at a key-wait instruction of a running machine. *)
AtKeyWait ==
  panicked = NoPanic /\ NextInstr(Self).op = "WaitForKeyPressAndStoreVx"

(* ------------------------------------------------------------------ *)
(* The claims.                                                         *)
(* ------------------------------------------------------------------ *)

(* C1: call/return is LIFO.  A tick that executes a return which succeeds
   sets PC to A+2, where A is the address the matching call (the innermost
   call not yet returned from) was fetched at, and brings the stack depth back
   to its value before that call. *)
C1_CallReturnLifo ==
  [][ (Ticked("Ret") /\ panicked' = NoPanic) =>
        /\ Len(shadow) > 0
        /\ position_in_memory' = shadow[Len(shadow)].ret
        /\ stack_pointer' = shadow[Len(shadow)].depth ]_vars

(* A return from a call nested in another, back to the second call site of
   the outer function (0x214 + 2), and a return from depth 16. *)
C1_Witness ==
  /\ last.op = "tick" /\ last.instr.op = "Ret" /\ panicked = NoPanic
  /\ \/ (position_in_memory = 534 /\ stack_pointer = 1 /\ Len(shadow) = 1)
     \/ (stack_pointer = STACK_SIZE - 1 /\ Len(shadow) = STACK_SIZE - 1)

(* C2: a call at depth below 16 succeeds and raises the depth by one (so 16
   nested calls from a fresh machine leave the depth at 16); a call at depth
   16 panics with "Stack overflow" and writes neither the stack array nor the
   depth counter. *)
C2_CallOverflow ==
  [][ Ticked("Call") =>
        IF stack_pointer < STACK_SIZE
        THEN /\ panicked' = NoPanic
             /\ stack_pointer' = stack_pointer + 1
        ELSE /\ panicked' = StackOverflow
             /\ stack' = stack
             /\ stack_pointer' = stack_pointer ]_vars

(* Sixteen calls with no return in between, then the seventeenth failed. *)
C2_Witness ==
  /\ panicked = StackOverflow /\ last.instr.op = "Call"
  /\ stack_pointer = STACK_SIZE /\ Len(shadow) = STACK_SIZE
  /\ \A s \in 0..(STACK_SIZE - 1) : stack[s] = 518

(* C3: a return at depth 0 panics with "Stack underflow"; the depth stays 0
   and PC keeps the value the fetch left, it is not loaded from the stack. *)
C3_RetUnderflow ==
  [][ (Ticked("Ret") /\ stack_pointer = 0) =>
        /\ panicked' = StackUnderflow
        /\ stack_pointer' = 0
        /\ stack' = stack
        /\ position_in_memory' = position_in_memory + 2 ]_vars

C3_Witness ==
  /\ panicked = StackUnderflow /\ last.op = "tick" /\ last.instr.op = "Ret"
  /\ stack_pointer = 0 /\ position_in_memory = last.arg + 2

(* C4: a tick that executes key-wait while no key is down leaves PC at its
   value before the tick and every register unchanged (memory too, so the
   next tick fetches the same instruction), however many such ticks follow
   one another. *)
C4_KeyWaitStalls ==
  [][ (Ticked("WaitForKeyPressAndStoreVx") /\ NoKeyDown) =>
        /\ position_in_memory' = position_in_memory
        /\ registers' = registers
        /\ memory' = memory
        /\ panicked' = NoPanic ]_vars

(* A stalled key-wait tick: the machine is at the same key-wait again. *)
C4_Witness ==
  /\ last.op = "tick" /\ last.instr.op = "WaitForKeyPressAndStoreVx"
  /\ NoKeyDown /\ position_in_memory = last.arg /\ AtKeyWait

(* C5: a tick at a key-wait Fx0A with exactly one key k down ends with PC
   advanced by 2 and Vx = k; and if from some point on a key is held down
   and the host keeps ticking, PC is time and again not at a key-wait. *)
C5_KeyWaitProceeds ==
  /\ [][ \A k \in 0..(NUM_KEYS - 1) :
           (Ticked("WaitForKeyPressAndStoreVx") /\ OnlyKeyDown(k)) =>
             /\ position_in_memory' = position_in_memory + 2
             /\ registers'[last'.instr.x] = k ]_vars
  /\ (<>[](panicked = NoPanic /\ ~NoKeyDown) => []<>(~AtKeyWait))

(* Key 15 alone was down when the key-wait of RomKeyWait ran. *)
C5_Witness ==
  /\ last.op = "tick" /\ last.instr.op = "WaitForKeyPressAndStoreVx"
  /\ OnlyKeyDown(15) /\ registers[3] = 15 /\ position_in_memory = last.arg + 2

(* C8: tick_timers() changes nothing but the two timers. *)
C8_TickTimersFrame ==
  [][ (last'.op = "tick_timers") =>
        UNCHANGED << registers, position_in_memory, memory, stack, stack_pointer,
                     i_register, keys, display, panicked >> ]_vars

(* tick_timers() ran, and decremented a timer, while a key-wait is stalled. *)
C8_Witness ==
  /\ last.op = "tick_timers" /\ AtKeyWait /\ NoKeyDown
  /\ delay_timer_register = 2 /\ sound_timer_register = 0

(* ------------------------------------------------------------------ *)
(* The timers alone: test_tick_timers sets the two timer fields and    *)
(* calls tick_timers(); here the host also ticks a program that sets   *)
(* the delay timer once.                                               *)
(* ------------------------------------------------------------------ *)

(* 0x200: LD V2,3   0x202: LD DT,V2   0x204: JP 0x204 *)
RomSetDelayOnce == Image(<< 25091, 61973, 4612 >>)

InitTimers ==
  /\ \E d \in ByteSamples, t \in ByteSamples :
       Start([new_with_rom(RomSetDelayOnce) EXCEPT !.delay_timer_register = d,
                                                   !.sound_timer_register = t],
             "fixture")
  /\ SingleOwner

(* tick_timers(), counted in the run of each timer. *)
TickTimersCounted ==
  /\ timer_run.delay.n < MaxTimerRun
  /\ timer_run.sound.n < MaxTimerRun
  /\ panicked = NoPanic
  /\ Commit(tick_timers(Self))
  /\ last' = [op |-> "tick_timers", arg |-> 0, instr |-> NoInstr]
  /\ timer_run' = [delay |-> [timer_run.delay EXCEPT !.n = @ + 1],
                   sound |-> [timer_run.sound EXCEPT !.n = @ + 1]]
  /\ UNCHANGED << overflow_checks, shadow, thread_vars >>

NextTimers == TickTimersCounted \/ Tick

SpecTimers == InitTimers /\ [][NextTimers]_vars

Max(a, b) == IF a >= b THEN a ELSE b

(* C7: tick_timers() takes each timer t to t-1 if t > 0 and leaves it at 0
   otherwise, each independently of the other; after n calls with no
   timer-set instruction in between a timer that held t holds max(0, t-n);
   both timers stay within 0..255. *)
C7_TimersSaturate ==
  /\ [](/\ delay_timer_register = Max(0, timer_run.delay.from - timer_run.delay.n)
        /\ sound_timer_register = Max(0, timer_run.sound.from - timer_run.sound.n)
        /\ delay_timer_register \in 0..(U8 - 1)
        /\ sound_timer_register \in 0..(U8 - 1))
  /\ [][ (last'.op = "tick_timers") =>
           /\ delay_timer_register' =
                IF delay_timer_register > 0 THEN delay_timer_register - 1 ELSE 0
           /\ sound_timer_register' =
                IF sound_timer_register > 0 THEN sound_timer_register - 1 ELSE 0 ]_vars

(* After three calls a timer that held 1 is at 0, having saturated, while
   the other, which held 255, is at 252. *)
C7_Witness ==
  /\ last.op = "tick_timers"
  /\ timer_run.delay = [n |-> 3, from |-> 1] /\ delay_timer_register = 0
  /\ timer_run.sound = [n |-> 3, from |-> 255] /\ sound_timer_register = 252

(* ------------------------------------------------------------------ *)
(* The arithmetic instructions on a fixture: one instruction word at   *)
(* 0x200, then a jump to itself, with the two registers it names set.  *)
(* ------------------------------------------------------------------ *)

(* The registers a fixture names: the first two and the flag register. *)
FixtureRegisters == {0, 1, NUM_REGISTERS - 1}

(* 8xy4, 8xy5, 8xy6, 8xy7 and 8xyE *)
ArithmeticWords ==
  {32768 + 256 * x + 16 * y + d : x \in FixtureRegisters, y \in FixtureRegisters,
                                  d \in {4, 5, 6, 7, 14}}

InitArithmetic ==
  /\ \E word \in ArithmeticWords, a \in ByteSamples, b \in ByteSamples :
       LET x == (word \div 256) % 16
           y == (word \div 16) % 16
           chip == new_with_rom(Image(<< word, 4610 >>))
       IN  Start([chip EXCEPT !.registers =
                    [r \in 0..(NUM_REGISTERS - 1) |->
                       IF r = y THEN b ELSE IF r = x THEN a ELSE 0]],
                 "fixture")
  /\ SingleOwner

NextArithmetic == Tick

SpecArithmetic == InitArithmetic /\ [][NextArithmetic]_vars

(* The carry out of a + b. *)
Carry(a, b) == IF a + b >= U8 THEN 1 ELSE 0

(* The claim of C9 as it stands: for every x and y, the add leaves
   Vx = (a+b) mod 256 and register 15 = 1 if a+b >= 256, else 0. *)
C9_AsStated ==
  [][ Ticked("AddXY") =>
        LET x == last'.instr.x
            y == last'.instr.y
            a == registers[x]
            b == registers[y]
        IN  /\ registers'[x] = (a + b) % U8
            /\ registers'[15] = Carry(a, b) ]_vars

(* C9, amended: for all a = Vx and b = Vy (x = y included) the add sets
   register 15 to 1 if a+b >= 256 and to 0 otherwise, and, when x is not
   register 15, leaves Vx = (a+b) mod 256; no other register changes. *)
C9_AddXY ==
  [][ Ticked("AddXY") =>
        LET x == last'.instr.x
            y == last'.instr.y
            a == registers[x]
            b == registers[y]
        IN  /\ registers'[15] = Carry(a, b)
            /\ x # 15 => registers'[x] = (a + b) % U8
            /\ \A r \in 0..(NUM_REGISTERS - 2) : r # x => registers'[r] = registers[r]
            /\ panicked' = NoPanic ]_vars

(* An add of a register to itself that overflowed: 255 + 255 = 254, carry 1. *)
C9_Witness ==
  /\ last.op = "tick" /\ last.instr.op = "AddXY"
  /\ last.instr.x = 1 /\ last.instr.y = 1
  /\ registers[1] = 254 /\ registers[15] = 1

(* The claim of C10 as it stands: the subtract leaves Vx = (a-b) mod 256
   and register 15 = 1 exactly when a >= b. *)
C10_AsStated ==
  [][ Ticked("SubYfromX") =>
        LET x == last'.instr.x
            y == last'.instr.y
            a == registers[x]
            b == registers[y]
        IN  /\ registers'[x] = (a - b) % U8
            /\ registers'[15] = (IF a >= b THEN 1 ELSE 0) ]_vars

(* C10, amended: for all a = Vx and b = Vy the subtract (Vx - Vy stored in
   Vx) sets register 15 to 1 exactly when a > b, so equal operands give
   flag 0, and, when x is not register 15, leaves Vx = (a-b) mod 256. *)
C10_SubYFromX ==
  [][ Ticked("SubYfromX") =>
        LET x == last'.instr.x
            y == last'.instr.y
            a == registers[x]
            b == registers[y]
        IN  /\ registers'[15] = (IF a > b THEN 1 ELSE 0)
            /\ x # 15 => registers'[x] = (a - b) % U8
            /\ \A r \in 0..(NUM_REGISTERS - 2) : r # x => registers'[r] = registers[r]
            /\ panicked' = NoPanic ]_vars

(* A subtract of equal operands held in two registers: 128 - 128 = 0, flag 0. *)
C10_Witness ==
  /\ last.op = "tick" /\ last.instr.op = "SubYfromX"
  /\ last.instr.x = 0 /\ last.instr.y = 1
  /\ registers[0] = 0 /\ registers[1] = 128 /\ registers[15] = 0

(* ------------------------------------------------------------------ *)
(* test_wait_for_key_press_and_store_at_vx_threaded: the machine in a  *)
(* Mutex, a worker thread that takes the lock once and ticks until the *)
(* program counter passes the instruction, and the main thread that    *)
(* takes the lock to press a key.                                      *)
(* ------------------------------------------------------------------ *)

(* The address of the test's program and the address after it. *)
ThreadedProgramAddr == 768
ThreadedProgramEnd == 770

(* The keys the main thread may press; the test presses 0xF. *)
ThreadedKeys == 0..(NUM_KEYS - 1)

(* Chip8::new(), the program [0xF0, 0x0A] copied to 0x300, the program
   counter set to 0x300. *)
ThreadedFixture ==
  [new EXCEPT !.memory = WriteByte(WriteByte(new.memory, ThreadedProgramAddr, 240),
                                   ThreadedProgramAddr + 1, 10),
              !.position_in_memory = ThreadedProgramAddr]

InitThreaded ==
  /\ Start(ThreadedFixture, "fixture")
  /\ mutex = "free"
  /\ \E key \in ThreadedKeys :
       threads = [worker |-> "lock", main |-> "lock", key |-> key]

(* worker: chip_clone.lock().unwrap() *)
WorkerLock ==
  /\ threads.worker = "lock"
  /\ mutex = "free"
  /\ mutex' = "worker"
  /\ threads' = [threads EXCEPT !.worker = "loop"]
  /\ UNCHANGED << chip_vars, panicked, overflow_checks, history_vars >>

(* worker: the loop test holds and the body runs chip.tick(); a panic in
   tick() unwinds the thread and poisons the mutex. *)
WorkerTick ==
  /\ threads.worker = "loop"
  /\ position_in_memory < ThreadedProgramEnd
  /\ \E random_number \in RandomDraws(Self) :
       \E result \in {tick(Self, random_number)} :
         /\ Commit(result)
         /\ last' = TickRecord(Self)
         /\ shadow' = ShadowAfter(Self, result)
         /\ timer_run' = TimerRunAfter(Self, result)
         /\ IF result.panic # NoPanic
            THEN /\ mutex' = "poisoned"
                 /\ threads' = [threads EXCEPT !.worker = "panicked"]
            ELSE UNCHANGED thread_vars
  /\ UNCHANGED overflow_checks

(* worker: the loop test fails, the closure ends and drops the guard. *)
WorkerExit ==
  /\ threads.worker = "loop"
  /\ position_in_memory >= ThreadedProgramEnd
  /\ mutex' = "free"
  /\ threads' = [threads EXCEPT !.worker = "done"]
  /\ UNCHANGED << chip_vars, panicked, overflow_checks, history_vars >>

(* main: chip_arc.lock().unwrap() *)
MainLock ==
  /\ threads.main = "lock"
  /\ mutex = "free"
  /\ mutex' = "main"
  /\ threads' = [threads EXCEPT !.main = "key_press"]
  /\ UNCHANGED << chip_vars, panicked, overflow_checks, history_vars >>

(* main: .key_press(key), and the temporary guard drops at the end of the
   statement. *)
MainKeyPress ==
  /\ threads.main = "key_press"
  /\ Commit(key_press(Self, threads.key))
  /\ last' = [op |-> "key_press", arg |-> threads.key, instr |-> NoInstr]
  /\ mutex' = "free"
  /\ threads' = [threads EXCEPT !.main = "sleep"]
  /\ UNCHANGED << overflow_checks, shadow, timer_run >>

Worker == WorkerLock \/ WorkerTick \/ WorkerExit

Main == MainLock \/ MainKeyPress

NextThreaded == WorkerLock \/ WorkerTick \/ WorkerExit \/ MainLock \/ MainKeyPress

(* Each thread that can take a step eventually takes one. *)
SpecThreaded ==
  InitThreaded /\ [][NextThreaded]_vars /\ WF_vars(Worker) /\ WF_vars(Main)

(* C6: in the threaded key-wait scenario, under every interleaving of the
   two threads the worker's loop terminates, the machine is released, and
   V0 holds the key the main thread pressed. *)
C6_WorkerTerminates ==
  <>(/\ threads.worker = "done"
     /\ mutex = "free"
     /\ registers[0] = threads.key)

(* ------------------------------------------------------------------ *)
(* The shifts, on the arithmetic fixture.                              *)
(* ------------------------------------------------------------------ *)

(* The claim of C11 as it stands: for every x and y, with v = Vy read before
   the instruction, shift-right leaves Vx = v >> 1 and register 15 = v & 1,
   and shift-left leaves Vx = (v << 1) mod 256 and register 15 = (v >> 7) & 1. *)
C11_AsStated ==
  [][ /\ Ticked("ShiftRight") =>
           LET v == registers[last'.instr.y]
           IN  /\ registers'[last'.instr.x] = v \div 2
               /\ registers'[15] = v % 2
      /\ Ticked("ShiftLeft") =>
           LET v == registers[last'.instr.y]
           IN  /\ registers'[last'.instr.x] = (v * 2) % U8
               /\ registers'[15] = (v \div 128) % 2 ]_vars

(* C11, amended: with v = Vy read before any write, shift-right sets register
   15 to v & 1 and shift-left sets it to (v >> 7) & 1; when x is not register
   15, shift-right leaves Vx = v >> 1 and shift-left leaves Vx = (v << 1) mod
   256; no register other than Vx and register 15 changes. *)
C11_Shifts ==
  [][ /\ Ticked("ShiftRight") =>
           LET x == last'.instr.x
               v == registers[last'.instr.y]
           IN  /\ registers'[15] = v % 2
               /\ x # 15 => registers'[x] = v \div 2
               /\ \A r \in 0..(NUM_REGISTERS - 2) : r # x => registers'[r] = registers[r]
               /\ panicked' = NoPanic
      /\ Ticked("ShiftLeft") =>
           LET x == last'.instr.x
               v == registers[last'.instr.y]
           IN  /\ registers'[15] = (v \div 128) % 2
               /\ x # 15 => registers'[x] = (v * 2) % U8
               /\ \A r \in 0..(NUM_REGISTERS - 2) : r # x => registers'[r] = registers[r]
               /\ panicked' = NoPanic ]_vars

(* A shift-left of V1 = 129 into V0, where V0 held 1: V0 = 2, flag 1, V1 kept. *)
C11_Witness ==
  /\ last.op = "tick" /\ last.instr.op = "ShiftLeft"
  /\ last.instr.x = 0 /\ last.instr.y = 1
  /\ registers[0] = 2 /\ registers[1] = 129 /\ registers[15] = 1

(* ------------------------------------------------------------------ *)
(* The BCD instruction on a fixture: Fx33 at 0x200, then a jump to     *)
(* itself, with Vx and the index register set.                         *)
(* ------------------------------------------------------------------ *)

(* The index register of a fixture: the glyph region (bytes that are not 0),
   the address the unit test uses, the last three addresses that fit, and
   two that do not. *)
BcdIndexes == {FONTSET_ADDR, 3 * U8, RAM - 3, RAM - 2, RAM}

InitBcd ==
  /\ \E x \in {0, NUM_REGISTERS - 1}, v \in 0..(U8 - 1), i \in BcdIndexes :
       LET chip == new_with_rom(Image(<< 61491 + U8 * x, 4610 >>))
       IN  Start([chip EXCEPT !.registers[x] = v, !.i_register = i], "fixture")
  /\ SingleOwner

NextBcd == Tick

SpecBcd == InitBcd /\ [][NextBcd]_vars

(* C12: for every v = Vx in 0..255 the BCD instruction, when I..I+2 are
   addresses of memory, writes memory[I] = v div 100, memory[I+1] =
   (v div 10) mod 10, memory[I+2] = v mod 10 (so the three bytes are digits
   whose decimal value is v) and leaves the index register, all registers
   and every other memory byte unchanged. *)
C12_Bcd ==
  [][ (Ticked("LoadVxAsDecimalIntoMemoryAtIRegister") /\ i_register + 2 < RAM) =>
        LET v == registers[last'.instr.x]
            i == i_register
            h == ReadByte(memory', i)
            t == ReadByte(memory', i + 1)
            o == ReadByte(memory', i + 2)
        IN  /\ h = v \div 100
            /\ t = (v \div 10) % 10
            /\ o = v % 10
            /\ 100 * h + 10 * t + o = v
            /\ {h, t, o} \subseteq 0..9
            /\ i_register' = i_register
            /\ registers' = registers
            /\ \A a \in (DOMAIN memory \cup DOMAIN memory') \ {i, i + 1, i + 2} :
                 ReadByte(memory', a) = ReadByte(memory, a)
            /\ panicked' = NoPanic ]_vars

(* 246 was decomposed over the first glyph's bytes: 2, 4, 6 at 0x50..0x52. *)
C12_Witness ==
  /\ last.op = "tick" /\ last.instr.op = "LoadVxAsDecimalIntoMemoryAtIRegister"
  /\ registers[0] = 246 /\ i_register = FONTSET_ADDR
  /\ ReadByte(memory, FONTSET_ADDR) = 2
  /\ ReadByte(memory, FONTSET_ADDR + 1) = 4
  /\ ReadByte(memory, FONTSET_ADDR + 2) = 6

(* ------------------------------------------------------------------ *)
(* Draw on a fixture: the same Dxyn at 0x200 and at 0x202, then a jump *)
(* to itself; a sprite in memory, the two coordinate registers set and *)
(* some cells of the display already set.                              *)
(* ------------------------------------------------------------------ *)

(* Where the fixture puts the sprite, and its greatest height. *)
SpriteAddr == 3 * U8
MaxSpriteHeight == 15

(* Sprites by row: blank, solid, and columns 4..7 alternating with columns
   0 and 3. *)
Sprites ==
  { [r \in 0..(MaxSpriteHeight - 1) |-> 0],
    [r \in 0..(MaxSpriteHeight - 1) |-> 255],
    [r \in 0..(MaxSpriteHeight - 1) |-> IF r % 2 = 0 THEN 15 ELSE 144] }

DrawXs == {0, 60, 255}
DrawYs == {0, 30, 255}
DrawHeights == {0, 1, 2, MaxSpriteHeight}
DrawDisplays == { {}, {0, 3, DISPLAY_MAX_X * DISPLAY_MAX_Y - 1} }

(* The coordinate registers x and y of the instruction. *)
DrawRegisters == { << 0, 1 >>, << NUM_REGISTERS - 1, 1 >> }

(* memory with the sprite's rows at SpriteAddr *)
WithSprite(mem, sprite) ==
  LET region == SpriteAddr..(SpriteAddr + MaxSpriteHeight - 1)
  IN  [a \in (DOMAIN mem \ region) \cup {b \in region : sprite[b - SpriteAddr] # 0} |->
         IF a \in region THEN sprite[a - SpriteAddr] ELSE mem[a]]

InitDraw ==
  /\ \E xy \in DrawRegisters, n \in DrawHeights, sprite \in Sprites,
        vx \in DrawXs, vy \in DrawYs, shown \in DrawDisplays :
       LET word == 53248 + U8 * xy[1] + 16 * xy[2] + n
           chip == new_with_rom(Image(<< word, word, 4612 >>))
       IN  Start([chip EXCEPT !.registers[xy[1]] = vx,
                              !.registers[xy[2]] = vy,
                              !.i_register = SpriteAddr,
                              !.memory = WithSprite(chip.memory, sprite),
                              !.display = shown],
                 "fixture")
  /\ SingleOwner

NextDraw == Tick

SpecDraw == InitDraw /\ [][NextDraw]_vars

(* The set bits of the sprite the next draw reads: row r, column c, MSB is
   column 0. *)
SpriteBits(n) ==
  {rc \in (0..(n - 1)) \X (0..(SPRITE_WIDTH - 1)) :
     (ReadByte(memory, i_register + rc[1]) \div (2 ^ (7 - rc[2]))) % 2 = 1}

(* C13: a draw that follows the same draw instruction (same index register,
   same Vx and Vy, same sprite bytes and height) leaves the display exactly
   as it was before the first of the two, and sets register 15 to 1 whenever
   the sprite has a set bit. *)
C13_DoubleDraw ==
  [][ ( /\ Ticked("Draw")
        /\ last.op = "tick"
        /\ last.instr = last'.instr
        /\ last.from.x_coord = registers[last'.instr.x]
        /\ last.from.y_coord = registers[last'.instr.y] ) =>
        /\ panicked' = NoPanic
        /\ display' = last.from.display
        /\ SpriteBits(last'.instr.n) # {} => registers'[15] = 1 ]_vars

(* The second of two draws of a sprite with set bits, on a display that had
   cells set: the first changed the display, the second restored it. *)
C13_Witness ==
  /\ last.op = "tick" /\ last.instr.op = "Draw" /\ last.arg = START_ADDR + 2
  /\ panicked = NoPanic
  /\ registers[15] = 1
  /\ display = {0, 3, DISPLAY_MAX_X * DISPLAY_MAX_Y - 1}
  /\ last.from.display # display

(* C14: for all Vx, Vy in 0..255 and heights n in 0..15 a draw completes,
   and each set sprite bit at row r, column c (MSB is column 0) toggles
   exactly the display cell at column (Vx + c) mod 64, row (Vy + r) mod 32,
   and no other cell changes. *)
C14_DrawWraps ==
  [][ Ticked("Draw") =>
        LET vx == registers[last'.instr.x]
            vy == registers[last'.instr.y]
            toggled == {((vy + rc[1]) % DISPLAY_MAX_Y) * DISPLAY_MAX_X
                          + ((vx + rc[2]) % DISPLAY_MAX_X) :
                        rc \in SpriteBits(last'.instr.n)}
        IN  /\ panicked' = NoPanic
            /\ display' = (display \ toggled) \cup (toggled \ display) ]_vars

(* ------------------------------------------------------------------ *)
(* Jump with offset on a fixture: Bnnn at 0x200 and V0 set.            *)
(* ------------------------------------------------------------------ *)

(* The addresses nnn of a fixture: 0, the glyph table, the next instruction,
   the unit test's 0x300, and the two greatest. *)
JumpTargets == {0, FONTSET_ADDR, START_ADDR + 2, 3 * U8, RAM - 2, RAM - 1}

(* The offsets V0 of a fixture: the sampled bytes and the unit test's 0x21. *)
JumpOffsets == ByteSamples \cup {33}

InitJump ==
  /\ \E nnn \in JumpTargets, v0 \in JumpOffsets :
       Start([new_with_rom(Image(<< 45056 + nnn >>)) EXCEPT !.registers[0] = v0],
             "fixture")
  /\ SingleOwner

NextJump == Tick

SpecJump == InitJump /\ [][NextJump]_vars

(* C15: Bnnn sets PC to nnn + V0, the unmasked sum, for every 12-bit nnn and
   every 8-bit V0, and changes nothing else. *)
C15_JumpPlusV0 ==
  [][ Ticked("JumpPlusV0") =>
        /\ position_in_memory' = last'.instr.nnn + registers[0]
        /\ panicked' = NoPanic
        /\ UNCHANGED << registers, memory, stack, stack_pointer, i_register,
                        delay_timer_register, sound_timer_register, keys, display >> ]_vars

(* nnn = 0xFFF and V0 = 0xFF gave PC = 0x10FE, past the end of memory. *)
C15_Witness ==
  /\ last.op = "tick" /\ last.instr.op = "JumpPlusV0"
  /\ last.instr.nnn = RAM - 1 /\ registers[0] = U8 - 1
  /\ position_in_memory = RAM + U8 - 2

(* ------------------------------------------------------------------ *)
(* Fetch and dispatch.                                                 *)
(* ------------------------------------------------------------------ *)

(* The instructions that may leave PC elsewhere than after the word fetched:
   jumps, call, return, the skips and key-wait. *)
MovesPC ==
  {"Jump", "JumpPlusV0", "Call", "Ret",
   "SkipIfEqualAtX", "SkipIfNotEqualAtX", "SkipIfBothValuesEqual",
   "SkipIfBothValuesNotEqual", "SkipIfKeyAtVxPressed", "SkipIfKeyAtVxNotPressed",
   "WaitForKeyPressAndStoreVx"}

(* C16: a tick whose fetch succeeds decodes the word memory[PC]*256 +
   memory[PC+1], and its effect is that of executing that one instruction
   with PC already at PC+2; for an instruction that is not a jump, call,
   return, skip or key-wait, PC after the tick is the old PC + 2. *)
C16_FetchThenExecute ==
  [][ (vars' # vars /\ last'.op = "tick" /\ position_in_memory + 1 < RAM) =>
        LET word == ReadByte(memory, position_in_memory) * 256
                      + ReadByte(memory, position_in_memory + 1)
            fetched == [Self EXCEPT !.position_in_memory = position_in_memory + 2]
        IN  /\ last'.instr = decode(word)
            /\ \E random_number \in 0..(U8 - 1) :
                 Self' = execute(fetched, word, random_number)
            /\ last'.instr.op \notin MovesPC =>
                 position_in_memory' = position_in_memory + 2 ]_vars

(* A load-immediate ran: PC is just after it. *)
C16_Witness ==
  /\ last.op = "tick" /\ last.instr.op = "LoadValueToRegister"
  /\ panicked = NoPanic
  /\ registers[last.instr.x] = last.instr.kk
  /\ position_in_memory = last.arg + 2

(* ------------------------------------------------------------------ *)
(* The decoder alone: Opcode::decode applied to any 16-bit word.       *)
(* ------------------------------------------------------------------ *)

(* Opcode::decode(opcode), for a word the caller chooses. *)
Decode ==
  /\ last.op = "new"
  /\ \E opcode \in 0..(U16 - 1) :
       last' = [op |-> "decode", arg |-> opcode, instr |-> decode(opcode)]
  /\ UNCHANGED << chip_vars, panicked, overflow_checks, shadow, timer_run, thread_vars >>

NextDecode == Decode

SpecDecode == Init /\ [][NextDecode]_vars

(* The variants of Opcode. *)
Variants ==
  {"Sys", "Jump", "JumpPlusV0", "Call", "SkipIfEqualAtX", "SkipIfNotEqualAtX",
   "LoadValueToRegister", "AddToValueInRegister", "SkipIfBothValuesEqual",
   "SkipIfBothValuesNotEqual", "LoadYIntoX", "BitwiseOrXY", "BitwiseAndXY",
   "BitwiseXorXY", "AddXY", "SubYfromX", "SubXfromY", "Ret", "ShiftRight",
   "ShiftLeft", "SetIRegister", "RandomNumberToRegisterX", "LoadDelayTimerToVx",
   "SetDelayTimer", "SetSoundTimer", "AddVxToIRegister",
   "LoadVxAsDecimalIntoMemoryAtIRegister", "LoadRegistersV0ToVxIntoMemoryAtI",
   "FillRegistersV0ToVxFromMmoryAtI", "WaitForKeyPressAndStoreVx",
   "SkipIfKeyAtVxPressed", "SkipIfKeyAtVxNotPressed", "Draw", "ClearScreen",
   "SetICorrespondingFontAddressFromVx", "UnknownOpcode"}

(* The word matches a row of the instruction table. *)
MatchesRow(w) ==
  LET c  == w \div 4096
      d  == w % 16
      kk == w % 256
  IN  \/ c \in {0, 1, 2, 3, 4, 6, 7, 10, 11, 12, 13}
      \/ c \in {5, 9} /\ d = 0
      \/ c = 8 /\ d \in {0, 1, 2, 3, 4, 5, 6, 7, 14}
      \/ c = 14 /\ kk \in {158, 161}
      \/ c = 15 /\ kk \in {7, 10, 21, 24, 30, 41, 51, 85, 101}

(* C17: every 16-bit word decodes to exactly one variant of Opcode, and a
   word that matches no row of the table (0xFFFF, 5xy1) decodes to the
   unrecognized variant carrying the raw word unchanged. *)
C17_DecodeTotal ==
  (last.op = "decode") =>
    /\ last.instr.op \in Variants
    /\ Cardinality({v \in Variants : last.instr.op = v}) = 1
    /\ (last.instr.op = "UnknownOpcode") <=> ~MatchesRow(last.arg)
    /\ (last.instr.op = "UnknownOpcode") =>
         last.instr = [op |-> "UnknownOpcode", opcode |-> last.arg]

(* 0xFFFF was decoded: unrecognized, carrying 0xFFFF. *)
C17_Witness ==
  /\ last.op = "decode" /\ last.arg = U16 - 1
  /\ last.instr = [op |-> "UnknownOpcode", opcode |-> U16 - 1]

(* C18: among the words whose top nibble is 0, exactly 0x00E0 decodes to
   clear-display, exactly 0x00EE to return, and every other one to the
   system call carrying its low 12 bits. *)
C18_DecodeZeroNibble ==
  (last.op = "decode") =>
    /\ (last.instr.op = "ClearScreen") <=> (last.arg = 224)
    /\ (last.instr.op = "Ret") <=> (last.arg = 238)
    /\ (last.arg < 4096 /\ last.arg \notin {224, 238}) =>
         last.instr = [op |-> "Sys", nnn |-> last.arg % 4096]
    /\ (last.instr.op = "Sys") => last.arg < 4096

(* 0x00EF was decoded: a system call, next to the return's word. *)
C18_Witness ==
  /\ last.op = "decode" /\ last.arg = 239
  /\ last.instr = [op |-> "Sys", nnn |-> 239]

(* C19: the operand fields of every decoded instruction are the fixed bit
   slices of the word: x = bits 8..11, y = bits 4..7, kk = the low 8 bits,
   nnn = the low 12 bits, and the height n of a draw = the low 4 bits. *)
C19_DecodeFields ==
  (last.op = "decode") =>
    LET w == last.arg
        o == last.instr
    IN  /\ "x" \in DOMAIN o => o.x = (w \div 256) % 16
        /\ "y" \in DOMAIN o => o.y = (w \div 16) % 16
        /\ "kk" \in DOMAIN o => o.kk = w % 256
        /\ "nnn" \in DOMAIN o => o.nnn = w % 4096
        /\ "n" \in DOMAIN o => o.n = w % 16
        /\ w \div 4096 \in {1, 2, 10, 11} => "nnn" \in DOMAIN o
        /\ w \div 4096 \in {3, 4, 6, 7, 12} => DOMAIN o = {"op", "x", "kk"}

(* 0x3ABC was decoded: skip-if-equal with x = 0xA, kk = 0xBC. *)
C19_Witness ==
  /\ last.op = "decode" /\ last.arg = 15036
  /\ last.instr = [op |-> "SkipIfEqualAtX", x |-> 10, kk |-> 188]

(* ------------------------------------------------------------------ *)
(* Fatal ticks.                                                        *)
(* ------------------------------------------------------------------ *)

(* C20: a tick whose fetched word decodes to the unrecognized variant or to
   the system call fails fatally and executes no handler (only PC, advanced
   by the fetch, differs); and a tick fails fatally only for stack overflow,
   stack underflow, an unrecognized opcode or a system-call opcode. *)
C20_FatalTicks ==
  [][ (vars' # vars /\ last'.op = "tick") =>
        /\ last'.instr.op \in {"Sys", "UnknownOpcode"} =>
             /\ panicked' \in {SyscallNotSupported, NotYetImplemented}
             /\ position_in_memory' = position_in_memory + 2
             /\ UNCHANGED << registers, memory, stack, stack_pointer, i_register,
                             delay_timer_register, sound_timer_register, keys,
                             display >>
        /\ panicked' # NoPanic =>
             \/ panicked' \in {StackOverflow, StackUnderflow}
             \/ last'.instr.op \in {"Sys", "UnknownOpcode"} ]_vars


(* ------------------------------------------------------------------ *)
(* The machine as constructed.                                         *)
(* ------------------------------------------------------------------ *)

(* The byte Chip8::new leaves at address a: the glyph set at
   FONTSET_ADDR..FONTSET_ADDR + FONTSET_SIZE - 1 and 0 everywhere else. *)
FreshByte(a) ==
  IF a >= FONTSET_ADDR /\ a < FONTSET_ADDR + FONTSET_SIZE
  THEN FONTSET[a - FONTSET_ADDR + 1]
  ELSE 0

(* C21: a freshly constructed machine holds the 80-byte glyph set at
   0x50..0x9F and 0 in every other byte of memory, has the program counter
   at 0x200, and has all 16 registers, the index register, the stack and
   its depth and both timers at 0, every key up and no display cell set. *)
C21_FreshMachine ==
  last.op = "new" =>
    /\ FONTSET_ADDR = 80 /\ FONTSET_SIZE = 80 /\ Len(FONTSET) = 80
    /\ \A a \in 0..(RAM - 1) : ReadByte(memory, a) = FreshByte(a)
    /\ position_in_memory = 512
    /\ \A r \in 0..(NUM_REGISTERS - 1) : registers[r] = 0
    /\ i_register = 0
    /\ stack_pointer = 0
    /\ \A s \in 0..(STACK_SIZE - 1) : stack[s] = 0
    /\ delay_timer_register = 0 /\ sound_timer_register = 0
    /\ \A k \in 0..(NUM_KEYS - 1) : ~keys[k]
    /\ display = {}
    /\ panicked = NoPanic

(* The constructed machine, with the last glyph byte (0x80, the end of "F")
   at 0x9F and the first (0xF0) at 0x50. *)
C21_Witness ==
  /\ last.op = "new"
  /\ ReadByte(memory, 159) = 128 /\ ReadByte(memory, 80) = 240
  /\ ReadByte(memory, 160) = 0 /\ ReadByte(memory, 79) = 0
  /\ position_in_memory = START_ADDR


(* ------------------------------------------------------------------ *)
(* load_rom on a machine in use: the method is public, so a host may   *)
(* load an image over a machine that has already run.                  *)
(* ------------------------------------------------------------------ *)

(* 0x200 LD VA,0x2A   0x202 LD I,0x050   0x204 LD DT,VA   0x206 LD ST,VA
   0x208 CALL 0x20C   0x20A JP 0x20A     0x20C DRW V0,V0,1   0x20E JP 0x20E
   -- a program that leaves a mark in every part of the machine. *)
RomMarks == Image(<< 27178, 41040, 64021, 64024, 8716, 4618, 53249, 4622 >>)

(* An image that fills memory from START_ADDR to its end with JP 0x200, and
   the same image one byte longer. *)
RomFull == [i \in 1..(RAM - START_ADDR) |-> IF i % 2 = 1 THEN 18 ELSE 0]
RomTooLong == [i \in 1..(RAM - START_ADDR + 1) |-> IF i % 2 = 1 THEN 18 ELSE 0]

(* The images loaded: none of length 0, one of odd length, a program, the
   longest that fits and the shortest that does not. *)
LoadImages == {<< >>, << 96 >>, RomMarks, RomFull, RomTooLong}

(* The ticks the marking program is given before the load. *)
MaxMarkTicks == 7

(* tick() n times over, with no random draw in the program. *)
RECURSIVE Ran(_, _)
Ran(self, n) == IF n = 0 THEN self ELSE Ran(tick(self, 0), n - 1)

(* The machine as constructed, and the machine with key 0xF down that has run
   the marking program for 0..MaxMarkTicks ticks. *)
LoadFixtures ==
  {new} \cup {Ran(key_press(new_with_rom(RomMarks), NUM_KEYS - 1), n) : n \in 0..MaxMarkTicks}

InitLoadRom ==
  /\ overflow_checks \in BOOLEAN
  /\ \E self \in LoadFixtures : Start(self, "fixture")
  /\ SingleOwner

LoadRomAnytime ==
  /\ panicked = NoPanic
  /\ last.op = "fixture"
  /\ \E rom \in LoadImages :
       /\ Commit(load_rom(Self, rom))
       /\ last' = [op |-> "load_rom", arg |-> Len(rom), instr |-> NoInstr, rom |-> rom]
  /\ UNCHANGED << overflow_checks, shadow, timer_run, thread_vars >>

NextLoadRom == LoadRomAnytime \/ Tick

SpecLoadRom == InitLoadRom /\ [][NextLoadRom]_vars

(* C22: load_rom of an image of length 0..RAM - 0x200 copies byte i of the
   image to memory[0x200 + i] and leaves every other byte of memory, the glyph
   region included, and the program counter, registers, index register, stack,
   timers, keys and display as they were; an image longer than that fails
   fatally and copies nothing. *)
C22_LoadRom ==
  [][ last'.op = "load_rom" =>
        LET rom == last'.rom
        IN  IF Len(rom) <= RAM - START_ADDR
            THEN /\ panicked' = NoPanic
                 /\ \A i \in 0..(Len(rom) - 1) :
                      ReadByte(memory', START_ADDR + i) = rom[i + 1]
                 /\ \A a \in 0..(RAM - 1) :
                      (a < START_ADDR \/ a >= START_ADDR + Len(rom)) =>
                        ReadByte(memory', a) = ReadByte(memory, a)
                 /\ UNCHANGED << position_in_memory, registers, i_register, stack,
                                 stack_pointer, delay_timer_register,
                                 sound_timer_register, keys, display >>
            ELSE /\ panicked' # NoPanic
                 /\ UNCHANGED chip_vars ]_vars

(* The longest image loaded over a machine that has run the marking program
   to its end: the last byte of memory is written, the marks are still there. *)
C22_Witness ==
  /\ last.op = "load_rom" /\ last.arg = RAM - START_ADDR
  /\ panicked = NoPanic
  /\ ReadByte(memory, RAM - 2) = 18 /\ ReadByte(memory, START_ADDR + 1) = 0
  /\ registers[10] = 42 /\ i_register = FONTSET_ADDR /\ stack_pointer = 1
  /\ delay_timer_register = 42 /\ display # {} /\ keys[15]
  /\ position_in_memory = START_ADDR + 14

(* An image one byte too long, refused with the memory of the machine as it
   was. *)
C22_WitnessTooLong ==
  /\ last.op = "load_rom" /\ last.arg = RAM - START_ADDR + 1
  /\ panicked # NoPanic
  /\ ReadByte(memory, START_ADDR) = 106 /\ ReadByte(memory, RAM - 2) = 0


(* ------------------------------------------------------------------ *)
(* The key latches.                                                    *)
(* ------------------------------------------------------------------ *)

(* C23: for k in 0..15 key_press(k) sets latch k down and key_release(k)
   sets it up, the other 15 latches and the rest of the machine staying as
   they were; for k > 15 either call fails fatally and changes no latch. *)
C23_KeyLatches ==
  [][ last'.op \in {"key_press", "key_release"} =>
        LET k == last'.arg
        IN  /\ IF k <= 15
               THEN /\ panicked' = NoPanic
                    /\ keys'[k] = (last'.op = "key_press")
                    /\ \A j \in 0..(NUM_KEYS - 1) : j # k => keys'[j] = keys[j]
               ELSE /\ panicked' # NoPanic
                    /\ keys' = keys
            /\ DOMAIN keys' = 0..(NUM_KEYS - 1)
            /\ UNCHANGED << registers, position_in_memory, memory, stack,
                            stack_pointer, i_register, delay_timer_register,
                            sound_timer_register, display >> ]_vars

(* Key 0xF released while key 0 stays down, on a machine inside a call. *)
C23_Witness ==
  /\ last.op = "key_release" /\ last.arg = 15
  /\ keys[0] /\ ~keys[15]
  /\ stack_pointer > 0 /\ panicked = NoPanic


(* ------------------------------------------------------------------ *)
(* The call stack.                                                     *)
(* ------------------------------------------------------------------ *)

(* C24: in every reachable state the stack depth is within 0..16; a call
   that succeeds increases it by exactly 1, a return that succeeds decreases
   it by exactly 1, a call or return that fails leaves it as it was, and no
   other operation changes the depth or the stack array. *)
C24_StackDepth ==
  /\ [](stack_pointer \in 0..STACK_SIZE /\ STACK_SIZE = 16)
  /\ [][ /\ Ticked("Call") /\ panicked' = NoPanic => stack_pointer' = stack_pointer + 1
         /\ Ticked("Ret") /\ panicked' = NoPanic =>
              stack_pointer' = stack_pointer - 1 /\ stack' = stack
         /\ panicked' # NoPanic => UNCHANGED << stack_pointer, stack >>
         /\ ~(Ticked("Call") \/ Ticked("Ret")) => UNCHANGED << stack_pointer, stack >>
       ]_vars

(* A return from depth 2 to depth 1, the slot it returned through still
   holding the saved address. *)
C24_Witness ==
  /\ last.op = "tick" /\ last.instr.op = "Ret"
  /\ stack_pointer = 1 /\ stack[1] # 0 /\ panicked = NoPanic

(* The stack full: 16 calls deep. *)
C24_WitnessFull ==
  /\ last.op = "tick" /\ last.instr.op = "Call"
  /\ stack_pointer = STACK_SIZE /\ panicked = NoPanic


(* ------------------------------------------------------------------ *)
(* Subtract and reverse subtract on the arithmetic fixture.            *)
(* ------------------------------------------------------------------ *)

(* The claim of C25 as it stands: for every x and y the subtract leaves
   Vx = (Vx - Vy) mod 256 with register 15 = 1 iff Vx > Vy, and the reverse
   subtract leaves Vx = (Vy - Vx) mod 256 with register 15 = 1 iff Vy > Vx. *)
C25_AsStated ==
  [][ /\ Ticked("SubYfromX") =>
           LET x == last'.instr.x
               y == last'.instr.y
           IN  /\ registers'[x] = (registers[x] - registers[y]) % U8
               /\ registers'[15] = (IF registers[x] > registers[y] THEN 1 ELSE 0)
      /\ Ticked("SubXfromY") =>
           LET x == last'.instr.x
               y == last'.instr.y
           IN  /\ registers'[x] = (registers[y] - registers[x]) % U8
               /\ registers'[15] = (IF registers[y] > registers[x] THEN 1 ELSE 0)
    ]_vars

(* The difference and the flag of the step into the next state: minuend
   minus subtrahend, both read before any write. *)
SubtractStep(minuend, subtrahend, x) ==
  /\ registers'[15] = (IF minuend > subtrahend THEN 1 ELSE 0)
  /\ x # 15 => registers'[x] = (minuend - subtrahend) % U8
  /\ \A r \in 0..(NUM_REGISTERS - 2) : r # x => registers'[r] = registers[r]
  /\ panicked' = NoPanic

(* C25, amended: with the operands read before any write, the subtract sets
   register 15 to 1 iff Vx > Vy (else 0) and the reverse subtract sets it to
   1 iff Vy > Vx (else 0); when x is not register 15 the subtract leaves
   Vx = (Vx - Vy) mod 256 and the reverse subtract Vx = (Vy - Vx) mod 256;
   when x is register 15 the flag is written last and replaces the
   difference. *)
C25_Subtracts ==
  [][ /\ Ticked("SubYfromX") =>
           SubtractStep(registers[last'.instr.x], registers[last'.instr.y], last'.instr.x)
      /\ Ticked("SubXfromY") =>
           SubtractStep(registers[last'.instr.y], registers[last'.instr.x], last'.instr.x)
    ]_vars

(* A reverse subtract of V0 = 1 from V1 = 129: V0 = 128, flag 1, V1 kept. *)
C25_Witness ==
  /\ last.op = "tick" /\ last.instr.op = "SubXfromY"
  /\ last.instr.x = 0 /\ last.instr.y = 1
  /\ registers[0] = 128 /\ registers[1] = 129 /\ registers[15] = 1


(* ------------------------------------------------------------------ *)
(* The collision flag of a draw, on the draw fixture.                  *)
(* ------------------------------------------------------------------ *)

(* C26: after a draw that completes, register 15 is 1 if at least one cell
   the draw toggled was set when it was toggled (no cell is toggled twice by
   one draw, so: was set when the draw began) and 0 otherwise, a sprite with
   no set bit and a height of 0 included; the flag is written after every row
   and column is done, with the coordinates read before, and no other
   register changes. *)
C26_CollisionFlag ==
  [][ Ticked("Draw") /\ panicked' = NoPanic =>
        LET vx == registers[last'.instr.x]
            vy == registers[last'.instr.y]
            bits == SpriteBits(last'.instr.n)
            cell(rc) == ((vy + rc[1]) % DISPLAY_MAX_Y) * DISPLAY_MAX_X
                          + ((vx + rc[2]) % DISPLAY_MAX_X)
            collided == \E rc \in bits : cell(rc) \in display
        IN  /\ \A rc \in bits, other \in bits : cell(rc) = cell(other) => rc = other
            /\ registers' = [registers EXCEPT ![15] = IF collided THEN 1 ELSE 0] ]_vars

(* The first draw of a fixture with Vx in register 15: a solid row at column
   60 wraps onto the set cells 0 and 3, and the flag replaces the coordinate. *)
C26_Witness ==
  /\ last.op = "tick" /\ last.instr.op = "Draw" /\ last.arg = START_ADDR
  /\ last.instr.x = 15 /\ last.from.x_coord = 60 /\ last.from.y_coord = 0
  /\ last.from.display # {} /\ 0 \notin display
  /\ registers[15] = 1 /\ panicked = NoPanic

(* A draw of a blank sprite over a display with cells set: flag 0. *)
C26_WitnessClear ==
  /\ last.op = "tick" /\ last.instr.op = "Draw" /\ last.arg = START_ADDR
  /\ last.instr.x = 15 /\ last.instr.n = MaxSpriteHeight /\ last.from.x_coord = 255
  /\ last.from.display # {} /\ display = last.from.display
  /\ registers[15] = 0 /\ panicked = NoPanic


(* ------------------------------------------------------------------ *)
(* The conditional skips on a fixture: the skip at 0x200, a jump to    *)
(* itself at 0x202 and at 0x204, registers, keys, timers, index        *)
(* register and display set.                                           *)
(* ------------------------------------------------------------------ *)

(* 3xkk and 4xkk *)
SkipByteWords ==
  {op * 4096 + U8 * x + kk : op \in {3, 4}, x \in {0, NUM_REGISTERS - 1}, kk \in ByteSamples}

(* 5xy0 and 9xy0 *)
SkipRegisterWords ==
  {op * 4096 + U8 * x + 16 * y : op \in {5, 9}, x \in FixtureRegisters, y \in FixtureRegisters}

(* Ex9E and ExA1 *)
SkipKeyWords ==
  {57344 + U8 * x + low : x \in {0, NUM_REGISTERS - 1}, low \in {158, 161}}

(* The values of Vx a key skip is run with: the keys the host uses, the last
   key, and the bytes that name no key. *)
SkipKeyValues == KeyInputs \cup {U8 - 1}

(* The sets of keys held down. *)
SkipKeysDown == {{}, {0}, {NUM_KEYS - 1}, {0, NUM_KEYS - 1}}

SkipFixture(word, a, b, down) ==
  LET x == (word \div U8) % 16
      y == (word \div 16) % 16
      chip == new_with_rom(Image(<< word, 4610, 4612 >>))
  IN  [chip EXCEPT !.registers = [r \in 0..(NUM_REGISTERS - 1) |->
                                    IF r = x THEN a ELSE IF r = y THEN b ELSE 0],
                   !.keys = [k \in 0..(NUM_KEYS - 1) |-> k \in down],
                   !.i_register = FONTSET_ADDR,
                   !.delay_timer_register = U8 - 1,
                   !.sound_timer_register = 1,
                   !.display = {0, DISPLAY_MAX_X * DISPLAY_MAX_Y - 1}]

InitSkip ==
  /\ \/ \E word \in SkipByteWords, a \in ByteSamples :
          Start(SkipFixture(word, a, a, {0}), "fixture")
     \/ \E word \in SkipRegisterWords, a \in ByteSamples, b \in ByteSamples :
          Start(SkipFixture(word, a, b, {0}), "fixture")
     \/ \E word \in SkipKeyWords, a \in SkipKeyValues, down \in SkipKeysDown :
          Start(SkipFixture(word, a, a, down), "fixture")
  /\ SingleOwner

NextSkip == Tick

SpecSkip == InitSkip /\ [][NextSkip]_vars

SkipOps ==
  {"SkipIfEqualAtX", "SkipIfNotEqualAtX", "SkipIfBothValuesEqual",
   "SkipIfBothValuesNotEqual", "SkipIfKeyAtVxPressed", "SkipIfKeyAtVxNotPressed"}

(* Whether the skip instr names a key, in the state it starts from. *)
SkipNamesKey(instr) ==
  instr.op \in {"SkipIfKeyAtVxPressed", "SkipIfKeyAtVxNotPressed"} =>
    registers[instr.x] < NUM_KEYS

(* The condition of the skip instr, in the state it starts from. *)
SkipCondition(instr) ==
  CASE instr.op = "SkipIfEqualAtX" -> registers[instr.x] = instr.kk
    [] instr.op = "SkipIfNotEqualAtX" -> registers[instr.x] # instr.kk
    [] instr.op = "SkipIfBothValuesEqual" -> registers[instr.x] = registers[instr.y]
    [] instr.op = "SkipIfBothValuesNotEqual" -> registers[instr.x] # registers[instr.y]
    [] instr.op = "SkipIfKeyAtVxPressed" -> keys[registers[instr.x]]
    [] instr.op = "SkipIfKeyAtVxNotPressed" -> ~keys[registers[instr.x]]

(* C27: each conditional skip executed by tick (Vx == kk, Vx != kk, Vx == Vy,
   Vx != Vy, and key Vx down or up for Vx in 0..15, the values that name a
   key) ends with PC = old PC + 4 when its condition holds and old PC + 2
   when it does not, and changes no register, memory, stack, timer, key or
   display state. *)
C27_Skips ==
  [][ ( /\ vars' # vars /\ last'.op = "tick"
        /\ last'.instr.op \in SkipOps
        /\ SkipNamesKey(last'.instr) ) =>
        /\ position_in_memory' =
             position_in_memory + (IF SkipCondition(last'.instr) THEN 4 ELSE 2)
        /\ last'.arg = position_in_memory
        /\ panicked' = NoPanic
        /\ UNCHANGED << registers, memory, stack, stack_pointer, i_register,
                        delay_timer_register, sound_timer_register, keys, display >> ]_vars

(* ExA1 with V15 = 15 while key 0 is down and key 15 is up: the skip is
   taken. *)
C27_Witness ==
  /\ last.op = "tick" /\ last.instr.op = "SkipIfKeyAtVxNotPressed"
  /\ last.instr.x = 15 /\ registers[15] = 15
  /\ keys[0] /\ ~keys[15]
  /\ position_in_memory = START_ADDR + 4 /\ panicked = NoPanic


(* ------------------------------------------------------------------ *)
(* Key-wait with several keys down.                                    *)
(* ------------------------------------------------------------------ *)

(* The keys that are down. *)
KeysDown == {k \in 0..(NUM_KEYS - 1) : keys[k]}

(* The last match of a scan of the keys lo..15 in ascending order, none
   standing for no match so far. *)
RECURSIVE LastMatch(_, _)
LastMatch(lo, none) ==
  IF lo >= NUM_KEYS THEN none
  ELSE LastMatch(lo + 1, IF keys[lo] THEN lo ELSE none)

(* C28: a key-wait executed with keys down stores in Vx the last match of an
   ascending scan over 0..15, which is the highest-index key that is down,
   whatever else is down; it changes no other register and steps past the
   instruction. *)
C28_LastMatchWins ==
  [][ Ticked("WaitForKeyPressAndStoreVx") /\ KeysDown # {} =>
        /\ registers' = [registers EXCEPT ![last'.instr.x] = LastMatch(0, NUM_KEYS)]
        /\ LastMatch(0, NUM_KEYS) \in KeysDown
        /\ \A k \in KeysDown : k <= LastMatch(0, NUM_KEYS)
        /\ position_in_memory' = last'.arg + 2
        /\ panicked' = NoPanic ]_vars

(* The key-wait of the call program (LD V3,K at 0x204) with keys 0 and 0xF
   down: V3 = 0xF. *)
C28_Witness ==
  /\ last.op = "tick" /\ last.instr.op = "WaitForKeyPressAndStoreVx"
  /\ last.arg = START_ADDR + 4 /\ last.instr.x = 3
  /\ keys[0] /\ keys[15] /\ registers[3] = 15
  /\ position_in_memory = START_ADDR + 6

(* The claim of C29 as it stands: with several keys down, Vx receives the
   smallest index whose latch is set. *)
C29_AsStated ==
  [][ Ticked("WaitForKeyPressAndStoreVx") /\ Cardinality(KeysDown) >= 2 =>
        /\ registers'[last'.instr.x] \in KeysDown
        /\ \A k \in KeysDown : registers'[last'.instr.x] <= k ]_vars

(* C29, amended: when key-wait executes with several keys down at once, the
   highest-index key that is down wins: Vx receives the largest index k in
   0..15 whose latch is set. *)
C29_HighestKeyWins ==
  [][ Ticked("WaitForKeyPressAndStoreVx") /\ Cardinality(KeysDown) >= 2 =>
        /\ registers'[last'.instr.x] \in KeysDown
        /\ \A k \in KeysDown : k <= registers'[last'.instr.x] ]_vars

(* The key-wait of the timer program (LD V1,K at 0x20A) with keys 0 and 0xF
   down: V1 = 0xF, not 0. *)
C29_Witness ==
  /\ last.op = "tick" /\ last.instr.op = "WaitForKeyPressAndStoreVx"
  /\ last.arg = START_ADDR + 10 /\ last.instr.x = 1
  /\ keys[0] /\ keys[15] /\ registers[1] = 15
  /\ position_in_memory = START_ADDR + 12


(* ------------------------------------------------------------------ *)
(* The program counter at a fetch.                                     *)
(* ------------------------------------------------------------------ *)

(* C30: in every state reached by ticks from a constructed machine with a
   program loaded, the program counter is within memory at each fetch: a
   tick fetches at an address PC with both PC and PC + 1 in 0..4095,
   whatever jump, jump with offset, call, return, skip or sequential advance
   produced it. *)
C30_FetchInBounds ==
  [][ (vars' # vars /\ last'.op = "tick") =>
        /\ last'.arg = position_in_memory
        /\ position_in_memory \in 0..(RAM - 1)
        /\ position_in_memory + 1 \in 0..(RAM - 1) ]_vars


(* ------------------------------------------------------------------ *)
(* Memory addressed through the index register: LD I,nnn at 0x200, an  *)
(* instruction that reads or writes at I at 0x202, a jump to itself at *)
(* 0x204, on the machine as constructed.                               *)
(* ------------------------------------------------------------------ *)

(* The addresses nnn loaded into I: the start of memory, the glyph table,
   free memory, and the last bytes of memory. *)
IndexTargets == {0, FONTSET_ADDR, 3 * U8, RAM - 16, RAM - 3, RAM - 2, RAM - 1}

(* Fx33, Fx55 and Fx65 for x = 0, 2 and 15, and Dxyn at (V0, V0) for n = 0,
   1, 2 and 15. *)
IndexWords ==
  {61440 + U8 * x + low : x \in {0, 2, NUM_REGISTERS - 1}, low \in {51, 85, 101}}
    \cup {53248 + n : n \in {0, 1, 2, MaxSpriteHeight}}

InitIndex ==
  /\ \E nnn \in IndexTargets, word \in IndexWords :
       Start(new_with_rom(Image(<< 40960 + nnn, word, 4612 >>)), "new_with_rom")
  /\ SingleOwner

NextIndex == Tick

SpecIndex == InitIndex /\ [][NextIndex]_vars

IndexOps ==
  {"LoadVxAsDecimalIntoMemoryAtIRegister", "LoadRegistersV0ToVxIntoMemoryAtI",
   "FillRegistersV0ToVxFromMmoryAtI", "Draw"}

(* The number of bytes at I the instruction instr addresses. *)
IndexExtent(instr) ==
  CASE instr.op = "LoadVxAsDecimalIntoMemoryAtIRegister" -> 3
    [] instr.op = "Draw" -> instr.n
    [] OTHER -> instr.x + 1

(* C31: every memory access addressed through the index register (the BCD
   store at I..I+2, bulk store and bulk load at I..I+x, the sprite rows of
   draw at I..I+n-1) uses an address in 0..4095 for every value of the index
   register a program can reach, so the instruction completes, and the
   address arithmetic stays within 16 bits. *)
C31_IndexInRange ==
  [][ (vars' # vars /\ last'.op = "tick" /\ last'.instr.op \in IndexOps) =>
        /\ \A offset \in 0..(IndexExtent(last'.instr) - 1) :
             i_register + offset \in 0..(RAM - 1)
        /\ panicked' = NoPanic ]_vars


(* ------------------------------------------------------------------ *)
(* The font address: LD V0,kk at 0x200, LD F,V0 at 0x202, a jump to    *)
(* itself at 0x204, for every byte kk.                                 *)
(* ------------------------------------------------------------------ *)

InitFont ==
  /\ \E kk \in 0..(U8 - 1) :
       Start(new_with_rom(Image(<< 24576 + kk, 61481, 4612 >>)), "new_with_rom")
  /\ SingleOwner

NextFont == Tick

SpecFont == InitFont /\ [][NextFont]_vars

(* C32: the font-address instruction sets the index register to the
   glyph-table address for the low nibble of Vx: for every Vx in 0..255,
   I = 0x50 + 5 * (Vx mod 16), an address inside the glyph region
   0x50..0x9B. *)
C32_FontAddress ==
  [][ Ticked("SetICorrespondingFontAddressFromVx") =>
        /\ i_register' = 80 + 5 * (registers[last'.instr.x] % 16)
        /\ i_register' \in FONTSET_ADDR..(FONTSET_ADDR + FONTSET_SIZE - 5) ]_vars


(* ------------------------------------------------------------------ *)
(* Bulk store and bulk load on a fixture: Fx55 or Fx65 at 0x200, a     *)
(* jump to itself at 0x202, every register and the index register set. *)
(* ------------------------------------------------------------------ *)

(* Register files: register r holding r, as the unit tests set it, and
   register r holding 255 - r. *)
BulkRegisters ==
  { [r \in 0..(NUM_REGISTERS - 1) |-> r],
    [r \in 0..(NUM_REGISTERS - 1) |-> U8 - 1 - r] }

(* The index register: the glyph table, the bytes after the program, the
   unit tests' 0x300, the last 16 bytes of memory, and the last byte. *)
BulkIndexes == {FONTSET_ADDR, START_ADDR + 4, 3 * U8, RAM - NUM_REGISTERS, RAM - 1}

InitBulk ==
  /\ \E x \in 0..(NUM_REGISTERS - 1), low \in {85, 101},
        file \in BulkRegisters, i \in BulkIndexes :
       LET chip == new_with_rom(Image(<< 61440 + U8 * x + low, 4610 >>))
       IN  Start([chip EXCEPT !.registers = file, !.i_register = i], "fixture")
  /\ SingleOwner

NextBulk == Tick

SpecBulk == InitBulk /\ [][NextBulk]_vars

(* C33: for every x in 0..15 and an index register with I..I+x in memory,
   bulk store writes V0..Vx in order to memory[I..I+x] and leaves every
   register and every other byte unchanged, bulk load reads memory[I..I+x] in
   order into V0..Vx and leaves memory and the registers above x unchanged,
   and after either the index register is its old value + x + 1. *)
C33_BulkStoreLoad ==
  [][ /\ ( /\ Ticked("LoadRegistersV0ToVxIntoMemoryAtI")
           /\ i_register + last'.instr.x < RAM ) =>
           LET x == last'.instr.x
           IN  /\ panicked' = NoPanic
               /\ \A a \in 0..(RAM - 1) :
                    ReadByte(memory', a) =
                      IF a >= i_register /\ a <= i_register + x
                      THEN registers[a - i_register]
                      ELSE ReadByte(memory, a)
               /\ registers' = registers
               /\ i_register' = i_register + x + 1
      /\ ( /\ Ticked("FillRegistersV0ToVxFromMmoryAtI")
           /\ i_register + last'.instr.x < RAM ) =>
           LET x == last'.instr.x
           IN  /\ panicked' = NoPanic
               /\ \A r \in 0..(NUM_REGISTERS - 1) :
                    registers'[r] =
                      IF r <= x THEN ReadByte(memory, i_register + r) ELSE registers[r]
               /\ memory' = memory
               /\ i_register' = i_register + x + 1
    ]_vars

(* A bulk store of V0..V2 = 255, 254, 253 at the unit tests' 0x300: the three
   bytes written, the next byte not, I = 0x303. *)
C33_Witness ==
  /\ last.op = "tick" /\ last.instr.op = "LoadRegistersV0ToVxIntoMemoryAtI"
  /\ last.instr.x = 2 /\ i_register = 3 * U8 + 3
  /\ ReadByte(memory, 3 * U8) = 255 /\ ReadByte(memory, 3 * U8 + 2) = 253
  /\ ReadByte(memory, 3 * U8 + 3) = 0
  /\ registers[2] = 253 /\ panicked = NoPanic

(* A bulk load of V0..V1 from the glyph table: V0 = 0xF0, V1 = 0x90, V2 kept. *)
C33_WitnessLoad ==
  /\ last.op = "tick" /\ last.instr.op = "FillRegistersV0ToVxFromMmoryAtI"
  /\ last.instr.x = 1 /\ i_register = FONTSET_ADDR + 2
  /\ registers[0] = 240 /\ registers[1] = 144 /\ registers[2] = 2
  /\ panicked = NoPanic


(* The claim of C34 as it stands: for every x in 0..15 and every memory
   content, register 15 has the same value after a bulk store or a bulk load
   as before it. *)
C34_AsStated ==
  [][ ( Ticked("LoadRegistersV0ToVxIntoMemoryAtI")
        \/ Ticked("FillRegistersV0ToVxFromMmoryAtI") ) =>
        registers'[15] = registers[15] ]_vars

(* C34, amended: bulk store for every x in 0..15, and bulk load for every x
   in 0..14, leave register 15 with the value it had, whatever memory holds;
   bulk load with x = 15 loads register 15, like the registers below it,
   with memory[I + 15]. *)
C34_FlagKept ==
  [][ /\ Ticked("LoadRegistersV0ToVxIntoMemoryAtI") => registers'[15] = registers[15]
      /\ Ticked("FillRegistersV0ToVxFromMmoryAtI") =>
           IF last'.instr.x = 15 /\ i_register + 15 < RAM
           THEN registers'[15] = ReadByte(memory, i_register + 15)
           ELSE registers'[15] = registers[15]
    ]_vars

(* A bulk load of V0..V14 from the glyph table: register 15 kept at 240,
   register 14 loaded. *)
C34_Witness ==
  /\ last.op = "tick" /\ last.instr.op = "FillRegistersV0ToVxFromMmoryAtI"
  /\ last.instr.x = 14 /\ i_register = FONTSET_ADDR + 15
  /\ registers[15] = 240 /\ registers[14] = 240 /\ registers[13] = 128
  /\ panicked = NoPanic


(* ------------------------------------------------------------------ *)
(* Clear-display in a program that draws, under the host's calls.      *)
(* ------------------------------------------------------------------ *)

(* 0x200 LD VA,3      0x202 LD I,0x050    0x204 LD DT,VA    0x206 CALL 0x20C
   0x208 CLS          0x20A JP 0x20A
   0x20C DRW V0,V0,5  0x20E DRW VA,VA,5   0x210 DRW V0,V0,5 (collides: VF = 1)
   0x212 CLS          0x214 DRW V0,V0,5   0x216 RET *)
RomClear ==
  Image(<< 27139, 41040, 64021, 8716, 224, 4618,
           53253, 55973, 53253, 224, 53253, 238 >>)

InitClear == Start(new_with_rom(RomClear), "new_with_rom") /\ SingleOwner

NextClear == Tick \/ TickTimers \/ KeyPress \/ KeyRelease

SpecClear == InitClear /\ [][NextClear]_vars

(* C35: clear-display leaves all 64x32 cells unset whatever was drawn before
   and changes nothing else (registers, register 15 included, index
   register, memory, stack, timers, keys); and the display is modified only
   by draw and clear-display. *)
C35_ClearDisplay ==
  [][ /\ Ticked("ClearScreen") =>
           /\ \A idx \in 0..(DISPLAY_MAX_X * DISPLAY_MAX_Y - 1) : ~ReadCell(display', idx)
           /\ position_in_memory' = last'.arg + 2
           /\ panicked' = NoPanic
           /\ UNCHANGED << registers, i_register, memory, stack, stack_pointer,
                           delay_timer_register, sound_timer_register, keys >>
      /\ display' # display => Ticked("Draw") \/ Ticked("ClearScreen")
    ]_vars

(* The clear at 0x212, inside the call, after three draws: the display was
   not empty and is, the flag is still 1, key 0xF is still down. *)
C35_Witness ==
  /\ last.op = "tick" /\ last.instr.op = "ClearScreen" /\ last.arg = START_ADDR + 18
  /\ display = {} /\ registers[15] = 1 /\ registers[10] = 3
  /\ stack_pointer = 1 /\ i_register = FONTSET_ADDR /\ keys[15]
  /\ panicked = NoPanic


(* ------------------------------------------------------------------ *)
(* Who changes the timers.                                             *)
(* ------------------------------------------------------------------ *)

(* C36: tick() never decrements a timer.  A tick changes a timer only when
   it executes set-delay-timer or set-sound-timer, which assigns Vx as it was
   before the tick to that timer and leaves the other timer unchanged; any
   other change of a timer is a decrement by tick_timers(). *)
C36_TimersOnlyByTickTimers ==
  [][ /\ Ticked("SetDelayTimer") =>
           /\ delay_timer_register' = registers[last'.instr.x]
           /\ sound_timer_register' = sound_timer_register
      /\ Ticked("SetSoundTimer") =>
           /\ sound_timer_register' = registers[last'.instr.x]
           /\ delay_timer_register' = delay_timer_register
      /\ ( /\ last'.op = "tick"
           /\ ~Ticked("SetDelayTimer") /\ ~Ticked("SetSoundTimer") ) =>
           UNCHANGED << delay_timer_register, sound_timer_register >>
      /\ ( /\ last'.op # "tick"
           /\ << delay_timer_register, sound_timer_register >>'
                # << delay_timer_register, sound_timer_register >> ) =>
           /\ last'.op = "tick_timers"
           /\ delay_timer_register' \in {delay_timer_register, delay_timer_register - 1}
           /\ sound_timer_register' \in {sound_timer_register, sound_timer_register - 1}
    ]_vars

(* The set-sound-timer of the timer program (LD ST,V2 at 0x206) after one
   tick_timers(): the sound timer is V2 = 1, the delay timer is still 2. *)
C36_Witness ==
  /\ last.op = "tick" /\ last.instr.op = "SetSoundTimer" /\ last.arg = START_ADDR + 6
  /\ sound_timer_register = 1 /\ delay_timer_register = 2 /\ registers[2] = 1
  /\ panicked = NoPanic


(* ------------------------------------------------------------------ *)
(* The words 8xy5 and 8xy7 through decode and dispatch.                *)
(* ------------------------------------------------------------------ *)

(* The word a tick fetches in the current state. *)
FetchedWord ==
  ReadByte(memory, position_in_memory) * U8 + ReadByte(memory, position_in_memory + 1)

(* C37: through decode and dispatch, a tick on the word 8xy5 performs
   SUB Vx, Vy (Vx := Vx - Vy mod 256) and a tick on the word 8xy7 performs
   SUBN Vx, Vy (Vx := Vy - Vx mod 256); x = 15, where the flag replaces the
   difference, is left aside. *)
C37_SubDispatch ==
  [][ ( /\ vars' # vars /\ last'.op = "tick"
        /\ FetchedWord \div 4096 = 8
        /\ FetchedWord % 16 \in {5, 7}
        /\ (FetchedWord \div U8) % 16 # 15 ) =>
        LET x == (FetchedWord \div U8) % 16
            y == (FetchedWord \div 16) % 16
        IN  registers'[x] =
              IF FetchedWord % 16 = 5
              THEN (registers[x] - registers[y]) % U8
              ELSE (registers[y] - registers[x]) % U8 ]_vars


(* ------------------------------------------------------------------ *)
(* The key skips over every kind of Vx.                                *)
(* ------------------------------------------------------------------ *)

(* C38: skip-if-key-pressed and skip-if-key-not-pressed never index the
   keypad outside 0..15: for every value of Vx in 0..255 the instruction
   completes, with PC advanced by 2 or by 4 over the instruction, without an
   out-of-range key access. *)
C38_KeySkipCompletes ==
  [][ (Ticked("SkipIfKeyAtVxPressed") \/ Ticked("SkipIfKeyAtVxNotPressed")) =>
        /\ panicked' = NoPanic
        /\ position_in_memory' \in {position_in_memory + 2, position_in_memory + 4} ]_vars


(* ------------------------------------------------------------------ *)
(* Arithmetic into register 15.                                        *)
(* ------------------------------------------------------------------ *)

(* The flag of the arithmetic instruction op on Vx = a and Vy = b. *)
FlagOf(op, a, b) ==
  CASE op = "AddXY" -> Carry(a, b)
    [] op = "SubYfromX" -> IF a > b THEN 1 ELSE 0
    [] op = "SubXfromY" -> IF b > a THEN 1 ELSE 0
    [] op = "ShiftRight" -> b % 2
    [] op = "ShiftLeft" -> (b \div 128) % 2

(* C39: when the destination x of add, subtract, reverse subtract, shift
   right or shift left is register 15, the flag is written last: after the
   instruction register 15 holds the flag, 0 or 1, computed from the operands
   read before any write, the arithmetic result is discarded, and no other
   register changes. *)
C39_FlagWrittenLast ==
  [][ ( /\ vars' # vars /\ last'.op = "tick"
        /\ last'.instr.op \in {"AddXY", "SubYfromX", "SubXfromY", "ShiftRight", "ShiftLeft"}
        /\ last'.instr.x = 15 ) =>
        /\ registers' =
             [registers EXCEPT ![15] = FlagOf(last'.instr.op, registers[15],
                                              registers[last'.instr.y])]
        /\ registers'[15] \in {0, 1}
        /\ panicked' = NoPanic ]_vars

(* A shift left of V1 = 129 into register 15: register 15 is the flag 1, not
   the shifted value 2. *)
C39_Witness ==
  /\ last.op = "tick" /\ last.instr.op = "ShiftLeft"
  /\ last.instr.x = 15 /\ last.instr.y = 1
  /\ registers[1] = 129 /\ registers[15] = 1


(* ------------------------------------------------------------------ *)
(* The machine after a fatal tick: LD VA,3 at 0x200, LD DT,VA at       *)
(* 0x202, and at 0x204 a word whose tick fails, under the host's calls. *)
(* ------------------------------------------------------------------ *)

(* The word at 0x204: system calls 0x0000 and 0x0123, the unrecognized 0x5001
   and 0xFFFF, a return with no call, and a call of 0x204 itself, which fills
   the stack. *)
FatalWords == {0, 291, 20481, 65535, 238, 8708}

InitFatal ==
  /\ \E word \in FatalWords :
       Start(new_with_rom(Image(<< 27139, 64021, word >>)), "new_with_rom")
  /\ SingleOwner

NextFatal == Tick \/ TickTimers \/ KeyPress \/ KeyRelease

SpecFatal == InitFatal /\ [][NextFatal]_vars

(* C40: when a tick fails fatally for stack overflow, stack underflow, a
   system-call or an unrecognized opcode, PC has been advanced by 2 by the
   fetch and every other part of the machine (registers, index register,
   memory, stack array, depth, timers, keys, display) is as before the
   tick. *)
C40_StateAfterFatalTick ==
  [][ ( /\ last'.op = "tick"
        /\ panicked = NoPanic
        /\ panicked' \in {StackOverflow, StackUnderflow, SyscallNotSupported,
                          NotYetImplemented} ) =>
        /\ position_in_memory' = position_in_memory + 2
        /\ UNCHANGED << registers, i_register, memory, stack, stack_pointer,
                        delay_timer_register, sound_timer_register, keys, display >> ]_vars

(* The 17th call of the program that calls itself: the stack is full of the
   return address 0x206, PC is past the call, the timer is running. *)
C40_Witness ==
  /\ last.op = "tick" /\ panicked = StackOverflow
  /\ position_in_memory = START_ADDR + 6 /\ stack_pointer = STACK_SIZE
  /\ stack[STACK_SIZE - 1] = START_ADDR + 6
  /\ registers[10] = 3 /\ delay_timer_register = 2 /\ keys[0]

====
